---- MODULE Spec2Model ----
(***************************************************************************)
(* Model of the alarm configuration resolution of asiaq                    *)
(* (disco_aws_automation/disco_alarm_config.py): DiscoAlarmsConfig and     *)
(* DiscoAlarmConfig, and of the load balancer management of                *)
(* disco_aws_automation/disco_elb.py: DiscoELB.                            *)
(*                                                                         *)
(* Strings are sequences of characters.  A character is a one-element      *)
(* TLA+ string; the delimiters ".", "_", "/", "-", "+", " " and the        *)
(* decimal digits are characters of their own, and a word that holds no    *)
(* delimiter and no digit ("AWS", "critical", "h1") stands for one         *)
(* indivisible run of letters.  Option dictionaries are functions from     *)
(* option names to strings.                                                *)
(***************************************************************************)
EXTENDS Integers, Sequences, FiniteSets, TLC

VARIABLES
    config,          \* self.config: the sections of the file, in file order
    environment,     \* self.environment
    elasticsearch,   \* self.elasticsearch: None or the collaborator
    _autoscale,      \* self._autoscale: None, "injected" or "constructed"
    _defaults,       \* self._defaults: the memoized defaults dictionary
    groups,          \* the autoscaling groups the collaborator can find
    load_balancers,  \* the load balancers of the ELB service, by name
    records,         \* the DNS records of Route53
    call,            \* the last operation called, with its arguments
    ret              \* what that operation returned or raised

vars ==
    <<config, environment, elasticsearch, _autoscale, _defaults, groups,
      load_balancers, records, call, ret>>

----------------------------------------------------------------------------
(* Bounds of the model *)

\* longest section name (in characters) handed to _decode_section_name alone
MaxNameLen == 9
\* most sections of a configuration in the family that varies the section names
MaxSections == 2
\* keys of the notifications section
MaxNotifications == 2

----------------------------------------------------------------------------
(* Strings *)

\* Python's None where a string may stand
None == <<"None">>

\* the empty dictionary
EmptyDict == [k \in {} |-> <<>>]

\* truth value of an optional string: None and "" are false
Truthy(s) == s # None /\ s # <<>>

Digits == {"0", "1", "2", "3", "4", "5", "6", "7", "8", "9"}

DigitValue(c) ==
    CASE c = "0" -> 0 [] c = "1" -> 1 [] c = "2" -> 2 [] c = "3" -> 3
      [] c = "4" -> 4 [] c = "5" -> 5 [] c = "6" -> 6 [] c = "7" -> 7
      [] c = "8" -> 8 [] c = "9" -> 9

\* str.split(sep): the segments between the separators, empty ones included
RECURSIVE Split(_, _)
Split(s, sep) ==
    IF s = <<>> THEN << <<>> >>
    ELSE LET rest == Split(Tail(s), sep)
         IN  IF Head(s) = sep
             THEN << <<>> >> \o rest
             ELSE << <<Head(s)>> \o Head(rest) >> \o Tail(rest)

\* sep.join(segments)
RECURSIVE Join(_, _)
Join(segments, sep) ==
    IF segments = <<>> THEN <<>>
    ELSE IF Len(segments) = 1 THEN Head(segments)
    ELSE Head(segments) \o <<sep>> \o Join(Tail(segments), sep)

\* str.isdigit(): non-empty and decimal digits only
IsDigit(s) == Len(s) > 0 /\ \A i \in 1..Len(s) : s[i] \in Digits

RECURSIVE DecimalValue(_)
DecimalValue(s) ==
    IF s = <<>> THEN 0
    ELSE 10 * DecimalValue(SubSeq(s, 1, Len(s) - 1)) + DigitValue(s[Len(s)])

\* str.strip() of blanks
RECURSIVE Strip(_)
Strip(s) ==
    IF s = <<>> THEN s
    ELSE IF Head(s) = " " THEN Strip(Tail(s))
    ELSE IF s[Len(s)] = " " THEN Strip(SubSeq(s, 1, Len(s) - 1))
    ELSE s

\* int(s): blanks around, an optional sign, then decimal digits; ValueError otherwise
IntParses(s) ==
    LET t == Strip(s)
    IN  /\ t # <<>>
        /\ IF Head(t) \in {"-", "+"} THEN IsDigit(Tail(t)) ELSE IsDigit(t)

Int_(s) ==
    LET t == Strip(s)
    IN  IF Head(t) = "-" THEN 0 - DecimalValue(Tail(t))
        ELSE IF Head(t) = "+" THEN DecimalValue(Tail(t))
        ELSE DecimalValue(t)

\* dict.update: the entries of overlay replace those of base
Update(base, overlay) ==
    [k \in DOMAIN base \cup DOMAIN overlay |->
        IF k \in DOMAIN overlay THEN overlay[k] ELSE base[k]]

\* dict with one more entry
Put(d, key, value) ==
    [k \in DOMAIN d \cup {key} |-> IF k = key THEN value ELSE d[k]]

----------------------------------------------------------------------------
(* Module constants *)

NOTIFICATION_LEVELS == { <<"critical">>, <<"info">> }
NOTIFICATION_SECTION_NAME == <<"notifications">>
DEFAULT_SECTION_NAME == <<"defaults">>

----------------------------------------------------------------------------
(* DiscoAlarmsConfig._decode_section_name *)

\* a variant that takes the fourth segment for the hostclass
DecodeFourthSegmentHostclass(section) ==
    LET section_segments == Split(section, ".")
        n == Len(section_segments)
    IN  IF n >= 4
        THEN [status |-> "ok",
              team |-> section_segments[1],
              namespace |-> section_segments[2],
              metric_name |-> Join(SubSeq(section_segments, 3, n), "."),
              hostclass |-> section_segments[4]]
        ELSE IF n = 3
        THEN [status |-> "ok",
              team |-> section_segments[1],
              namespace |-> section_segments[2],
              metric_name |-> section_segments[3],
              hostclass |-> None]
        ELSE [status |-> "AlarmConfigError", section |-> section]

_decode_section_name(section) ==
    LET section_segments == Split(section, ".")
        n == Len(section_segments)
    IN  IF n >= 4
        THEN [status |-> "ok",
              team |-> section_segments[1],
              namespace |-> section_segments[2],
              metric_name |-> Join(SubSeq(section_segments, 3, n - 1), "."),
              hostclass |-> section_segments[n]]
        ELSE IF n = 3
        THEN [status |-> "ok",
              team |-> section_segments[1],
              namespace |-> section_segments[2],
              metric_name |-> section_segments[3],
              hostclass |-> None]
        ELSE [status |-> "AlarmConfigError", section |-> section]

----------------------------------------------------------------------------
(* ConfigStore: the parsed configuration file.  A configuration is the      *)
(* sequence of its sections, each [name |-> string, items |-> dictionary].  *)

\* config.sections(): the section names in file order
sections(cfg) == [i \in 1..Len(cfg) |-> cfg[i].name]

\* config.has_section(name)
has_section(cfg, name) == \E i \in 1..Len(cfg) : cfg[i].name = name

\* dict(config.items(name)), for a section that exists (NoSectionError otherwise)
items(cfg, name) == cfg[CHOOSE i \in 1..Len(cfg) : cfg[i].name = name].items

----------------------------------------------------------------------------
(* Collaborators *)

AWS_EC2 == <<"AWS", "/", "EC", "2">>
AWS_ES == <<"AWS", "/", "ES">>
AWS_RDS == <<"AWS", "/", "RDS">>
AWS_ELB == <<"AWS", "/", "ELB">>

\* no Elasticsearch collaborator
NoElasticsearch == [present |-> FALSE, environment_name |-> <<>>, domains |-> EmptyDict]

\* DiscoElasticsearch.get_domain_name
get_domain_name(es, elasticsearch_name) ==
    <<"es", "-">> \o elasticsearch_name \o <<"-">> \o es.environment_name

\* DiscoElasticsearch.get_client_id: the describe call fails for an unknown domain
get_client_id(es, domain_name) ==
    IF domain_name \in DOMAIN es.domains
    THEN [status |-> "ok", value |-> Split(es.domains[domain_name], "/")[1]]
    ELSE [status |-> "ClientError", value |-> None]

\* DiscoAutoscale.get_existing_group(hostclass).name
get_existing_group_name(grps, hostclass) ==
    IF hostclass \in DOMAIN grps
    THEN [status |-> "ok", value |-> grps[hostclass]]
    ELSE [status |-> "LookupError", value |-> None]

\* re.sub(r'[^a-zA-Z0-9-]', '', name): the characters of the model that are
\* neither letters, digits nor dashes are dropped
ElbNameDropped == {"_", ".", "/", " ", ",", ":"}

RECURSIVE StripElbName(_)
StripElbName(s) ==
    IF s = <<>> THEN <<>>
    ELSE IF Head(s) \in ElbNameDropped THEN StripElbName(Tail(s))
    ELSE <<Head(s)>> \o StripElbName(Tail(s))

\* DiscoELB.get_elb_name (names of the model stay far below 255 characters)
get_elb_name(environment_name, hostclass, testing) ==
    StripElbName(environment_name \o <<"-">> \o hostclass
                 \o (IF testing THEN <<"-", "test">> ELSE <<>>))

\* hashlib.sha256(s).hexdigest()[:32], kept as a term: digests of different
\* strings differ and no digest is the string it was made from
Sha256Hex32(s) == <<"sha256">> \o s

\* DiscoELB.get_elb_id
get_elb_id(environment_name, hostclass, testing) ==
    Sha256Hex32(get_elb_name(environment_name, hostclass, testing))

\* str.lower() of the words of the model that hold capitals
LowerChar(c) ==
    CASE c = "True" -> "true" [] c = "TRUE" -> "true" [] c = "Yes" -> "yes"
      [] c = "False" -> "false" [] OTHER -> c

Lower(s) == [i \in 1..Len(s) |-> LowerChar(s[i])]

YES_LIST == { <<"true">>, <<"yes">>, <<"t">>, <<"y">>, <<"aye">>, <<"1">> }

\* disco_aws_util.is_truthy: a value that is set and, lowered, is in YES_LIST
is_truthy(value) == Truthy(value) /\ Lower(value) \in YES_LIST

----------------------------------------------------------------------------
(* The resolver object: self == [config, environment, elasticsearch,        *)
(* _autoscale, _defaults, groups]                                           *)

NoDefaults == [set |-> FALSE, value |-> EmptyDict]

\* what a call did to the config store and the autoscaling collaborator: the
\* sequence of [op, hostclass], kept in self.effects while the call runs
Effect(op, hostclass) == [op |-> op, hostclass |-> hostclass]

Did(self, op, hostclass) ==
    [self EXCEPT !.effects = Append(@, Effect(op, hostclass))]

\* DiscoAlarmsConfig.__init__
DiscoAlarmsConfig(env, cfg, autoscale, es, grps) ==
    [config |-> cfg, environment |-> env, elasticsearch |-> es,
     _autoscale |-> autoscale, _defaults |-> NoDefaults, groups |-> grps,
     effects |-> <<>>]

\* DiscoAlarmsConfig.get_defaults
get_defaults(self) ==
    IF has_section(self.config, DEFAULT_SECTION_NAME)
    THEN [status |-> "ok", value |-> items(self.config, DEFAULT_SECTION_NAME)]
    ELSE [status |-> "NoSectionError", value |-> EmptyDict]

\* DiscoAlarmsConfig.defaults: self._defaults = self._defaults or self.get_defaults()
\* (an empty dictionary is false, like None, so it is read again)
defaults(self) ==
    IF self._defaults.set /\ DOMAIN self._defaults.value # {}
    THEN [status |-> "ok", value |-> self._defaults.value, self |-> self]
    ELSE LET d == get_defaults(self)
             read == Did(self, "get_defaults", None)
         IN  IF d.status = "ok"
             THEN [status |-> "ok", value |-> d.value,
                   self |-> [read EXCEPT !._defaults = [set |-> TRUE, value |-> d.value]]]
             ELSE [status |-> d.status, value |-> EmptyDict, self |-> read]

\* DiscoAlarmsConfig.autoscale: the collaborator, constructed on first use
autoscale(self) ==
    IF self._autoscale = "None"
    THEN [Did(self, "DiscoAutoscale", None) EXCEPT !._autoscale = "constructed"]
    ELSE self

----------------------------------------------------------------------------
(* DiscoAlarmsConfig._get_alarm_specification_dict                          *)
(* Returns [status, none, options, self]: none stands for the None the      *)
(* generic pass returns when a hostclass section shadows it.                *)

\* a variant that puts the parent section over the child section
MergeLayersParentLast(cfg, base, parent_section_name, child_section_name, hostclass_specific) ==
    IF hostclass_specific
    THEN IF has_section(cfg, child_section_name)
         THEN LET with_child == Update(base, items(cfg, child_section_name))
              IN  [status |-> "ok", none |-> FALSE,
                   options |-> IF has_section(cfg, parent_section_name)
                               THEN Update(with_child, items(cfg, parent_section_name))
                               ELSE with_child]
         ELSE [status |-> "NoSectionError", none |-> FALSE, options |-> EmptyDict]
    ELSE IF has_section(cfg, child_section_name)
         THEN [status |-> "ok", none |-> TRUE, options |-> EmptyDict]
         ELSE IF has_section(cfg, parent_section_name)
         THEN [status |-> "ok", none |-> FALSE,
               options |-> Update(base, items(cfg, parent_section_name))]
         ELSE [status |-> "NoSectionError", none |-> FALSE, options |-> EmptyDict]

\* a variant whose generic pass does not yield to a hostclass section
MergeLayersUnshadowed(cfg, base, parent_section_name, child_section_name, hostclass_specific) ==
    LET with_parent ==
            IF has_section(cfg, parent_section_name)
            THEN Update(base, items(cfg, parent_section_name))
            ELSE base
    IN  IF hostclass_specific
        THEN IF has_section(cfg, child_section_name)
             THEN [status |-> "ok", none |-> FALSE,
                   options |-> Update(with_parent, items(cfg, child_section_name))]
             ELSE [status |-> "NoSectionError", none |-> FALSE, options |-> EmptyDict]
        ELSE IF has_section(cfg, parent_section_name)
        THEN [status |-> "ok", none |-> FALSE, options |-> with_parent]
        ELSE [status |-> "NoSectionError", none |-> FALSE, options |-> EmptyDict]

\* the parent and child layers put over the defaults (lines 253-264):
\* [status, none, options]
MergeLayers(cfg, base, parent_section_name, child_section_name, hostclass_specific) ==
    IF hostclass_specific
    THEN LET with_parent ==
                 IF has_section(cfg, parent_section_name)
                 THEN Update(base, items(cfg, parent_section_name))
                 ELSE base
         IN  IF has_section(cfg, child_section_name)
             THEN [status |-> "ok", none |-> FALSE,
                   options |-> Update(with_parent, items(cfg, child_section_name))]
             ELSE [status |-> "NoSectionError", none |-> FALSE, options |-> EmptyDict]
    ELSE IF has_section(cfg, child_section_name)
         THEN [status |-> "ok", none |-> TRUE, options |-> EmptyDict]
         ELSE IF has_section(cfg, parent_section_name)
         THEN [status |-> "ok", none |-> FALSE,
               options |-> Update(base, items(cfg, parent_section_name))]
         ELSE [status |-> "NoSectionError", none |-> FALSE, options |-> EmptyDict]

\* a variant in which the options of the configuration win over the synthesized fields
SynthesizeUnderOptions(options, self, team, namespace, metric_name, hostclass) ==
    Update([team |-> team, namespace |-> namespace, metric_name |-> metric_name,
            hostclass |-> hostclass, environment |-> self.environment],
           options)

\* the synthesized fields (lines 266-270)
Synthesize(options, self, team, namespace, metric_name, hostclass) ==
    Put(Put(Put(Put(Put(options,
        "team", team),
        "namespace", namespace),
        "metric_name", metric_name),
        "hostclass", hostclass),
        "environment", self.environment)

\* a variant that asks the collaborator whatever name the caller gave
AddAutoscalingGroupNameAsking(options, self, namespace, hostclass, autoscaling_group_name) ==
    IF namespace = AWS_EC2
    THEN LET self1 == Did(autoscale(self), "get_existing_group", hostclass)
             group == get_existing_group_name(self1.groups, hostclass)
         IN  IF group.status = "ok"
             THEN [status |-> "ok", self |-> self1,
                   options |-> Put(options, "autoscaling_group_name", group.value)]
             ELSE [status |-> group.status, self |-> self1, options |-> options]
    ELSE IF Truthy(autoscaling_group_name)
    THEN [status |-> "ok", self |-> self,
          options |-> Put(options, "autoscaling_group_name", autoscaling_group_name)]
    ELSE [status |-> "ok", self |-> self, options |-> options]

\* the autoscaling group name (lines 272-279): [status, options, self]
AddAutoscalingGroupName(options, self, namespace, hostclass, autoscaling_group_name) ==
    IF Truthy(autoscaling_group_name)
    THEN [status |-> "ok", self |-> self,
          options |-> Put(options, "autoscaling_group_name", autoscaling_group_name)]
    ELSE IF namespace = AWS_EC2
    THEN LET self1 == Did(autoscale(self), "get_existing_group", hostclass)
             group == get_existing_group_name(self1.groups, hostclass)
         IN  IF group.status = "ok"
             THEN [status |-> "ok", self |-> self1,
                   options |-> Put(options, "autoscaling_group_name", group.value)]
             ELSE [status |-> group.status, self |-> self1, options |-> options]
    ELSE [status |-> "ok", self |-> self, options |-> options]

\* the Elasticsearch domain name and client id (lines 281-284): [status, options]
AddElasticsearchDomain(options, self, namespace, hostclass) ==
    IF namespace = AWS_ES /\ self.elasticsearch.present
    THEN LET domain_name == get_domain_name(self.elasticsearch, hostclass)
             client_id == get_client_id(self.elasticsearch, domain_name)
         IN  IF client_id.status = "ok"
             THEN [status |-> "ok",
                   options |-> Put(Put(options, "es_domain_name", domain_name),
                                   "es_client_id", client_id.value)]
             ELSE [status |-> client_id.status, options |-> options]
    ELSE [status |-> "ok", options |-> options]

\* a variant that rewrites the namespace alone
RewriteLogPatternNamespace(options, self, namespace, metric_name, hostclass) ==
    IF "log_pattern_metric" \in DOMAIN options /\ is_truthy(options["log_pattern_metric"])
    THEN Put(options, "namespace", namespace \o <<"/">> \o self.environment)
    ELSE options

\* the rewrite of a log pattern metric (lines 286-289)
RewriteLogPatternMetric(options, self, namespace, metric_name, hostclass) ==
    IF "log_pattern_metric" \in DOMAIN options /\ is_truthy(options["log_pattern_metric"])
    THEN Put(Put(options, "namespace", namespace \o <<"/">> \o self.environment),
             "metric_name", hostclass \o <<"-">> \o metric_name)
    ELSE options

\* a variant of _get_alarm_specification_dict that fills in the memoized
\* defaults themselves instead of a copy of them
GetAlarmSpecificationDictInPlace(self, team, namespace, metric_name, hostclass, hostclass_specific, autoscaling_group_name) ==
    LET d == defaults(self)
        parent_section_name == Join(<<team, namespace, metric_name>>, ".")
        child_section_name == Join(<<team, namespace, metric_name, hostclass>>, ".")
        merged == MergeLayers(self.config, d.value, parent_section_name,
                              child_section_name, hostclass_specific)
        failed(status, s) ==
            [status |-> status, none |-> FALSE, options |-> EmptyDict, self |-> s]
    IN  IF d.status # "ok" THEN failed(d.status, d.self)
        ELSE IF merged.status # "ok" THEN failed(merged.status, d.self)
        ELSE IF merged.none
        THEN [status |-> "ok", none |-> TRUE, options |-> EmptyDict, self |-> d.self]
        ELSE LET synthesized == Synthesize(merged.options, d.self, team, namespace,
                                           metric_name, hostclass)
                 grouped == AddAutoscalingGroupName(synthesized, d.self, namespace,
                                                    hostclass, autoscaling_group_name)
                 searched == AddElasticsearchDomain(grouped.options, grouped.self,
                                                    namespace, hostclass)
             IN  IF grouped.status # "ok" THEN failed(grouped.status, grouped.self)
                 ELSE IF searched.status # "ok" THEN failed(searched.status, grouped.self)
                 ELSE [status |-> "ok", none |-> FALSE,
                       self |-> [grouped.self EXCEPT !._defaults.value =
                                    RewriteLogPatternMetric(searched.options, grouped.self,
                                                            namespace, metric_name, hostclass)],
                       options |-> RewriteLogPatternMetric(searched.options, grouped.self,
                                                           namespace, metric_name, hostclass)]

_get_alarm_specification_dict(self, team, namespace, metric_name, hostclass, hostclass_specific, autoscaling_group_name) ==
    LET d == defaults(self)
        parent_section_name == Join(<<team, namespace, metric_name>>, ".")
        child_section_name == Join(<<team, namespace, metric_name, hostclass>>, ".")
        merged == MergeLayers(self.config, d.value, parent_section_name,
                              child_section_name, hostclass_specific)
        failed(status, s) ==
            [status |-> status, none |-> FALSE, options |-> EmptyDict, self |-> s]
    IN  IF d.status # "ok" THEN failed(d.status, d.self)
        ELSE IF merged.status # "ok" THEN failed(merged.status, d.self)
        ELSE IF merged.none
        THEN [status |-> "ok", none |-> TRUE, options |-> EmptyDict, self |-> d.self]
        ELSE LET synthesized == Synthesize(merged.options, d.self, team, namespace,
                                           metric_name, hostclass)
                 grouped == AddAutoscalingGroupName(synthesized, d.self, namespace,
                                                    hostclass, autoscaling_group_name)
                 searched == AddElasticsearchDomain(grouped.options, grouped.self,
                                                    namespace, hostclass)
             IN  IF grouped.status # "ok" THEN failed(grouped.status, grouped.self)
                 ELSE IF searched.status # "ok" THEN failed(searched.status, grouped.self)
                 ELSE [status |-> "ok", none |-> FALSE, self |-> grouped.self,
                       options |-> RewriteLogPatternMetric(searched.options, grouped.self,
                                                           namespace, metric_name, hostclass)]

----------------------------------------------------------------------------
(* DiscoAlarmConfig *)

NoAlarm == [none |-> TRUE]

\* the options the constructor reads without a default, in reading order
RequiredOptions == <<"namespace", "metric_name", "hostclass", "environment", "team",
                     "duration", "period", "statistic", "custom_metric", "level">>

\* a variant that accepts every level
AnyLevelAllowed(level) == TRUE

\* the check of the notification level (line 71)
LevelAllowed(level) == level \in NOTIFICATION_LEVELS

\* the first failure of DiscoAlarmConfig.__init__ before the threshold is read,
\* "ok" when there is none (lines 44-76)
RECURSIVE ReadOptions(_, _)
ReadOptions(options, i) ==
    IF i > Len(RequiredOptions) THEN "ok"
    ELSE LET key == RequiredOptions[i]
         IN  IF key \notin DOMAIN options THEN "KeyError"
             ELSE IF key \in {"duration", "period"} /\ ~IntParses(options[key])
             THEN "ValueError"
             ELSE IF key = "level" /\ ~LevelAllowed(options[key])
             THEN "AlarmConfigError"
             ELSE ReadOptions(options, i + 1)

OptionalOption(options, key) == IF key \in DOMAIN options THEN options[key] ELSE None

\* DiscoAlarmConfig.__init__(options, maximum): [status, alarm]
DiscoAlarmConfig(options, maximum) ==
    LET read == ReadOptions(options, 1)
        threshold_key == IF maximum THEN "threshold_max" ELSE "threshold_min"
    IN  IF read # "ok" THEN [status |-> read, alarm |-> NoAlarm]
        ELSE IF threshold_key \notin DOMAIN options
        THEN [status |-> "KeyError", alarm |-> NoAlarm]
        ELSE IF ~IntParses(options[threshold_key])
        THEN [status |-> "ValueError", alarm |-> NoAlarm]
        ELSE [status |-> "ok",
              alarm |-> [namespace |-> options["namespace"],
                         metric_name |-> options["metric_name"],
                         hostclass |-> options["hostclass"],
                         environment |-> options["environment"],
                         team |-> options["team"],
                         duration |-> Int_(options["duration"]),
                         period |-> Int_(options["period"]),
                         statistic |-> options["statistic"],
                         custom_metric |-> Lower(options["custom_metric"]) = <<"true">>,
                         log_pattern_metric |->
                             "log_pattern_metric" \in DOMAIN options
                             /\ is_truthy(options["log_pattern_metric"]),
                         autoscaling_group_name |->
                             OptionalOption(options, "autoscaling_group_name"),
                         es_domain_name |-> OptionalOption(options, "es_domain_name"),
                         es_client_id |-> OptionalOption(options, "es_client_id"),
                         _level |-> options["level"],
                         threshold |-> Int_(options[threshold_key]),
                         threshold_type |-> IF maximum THEN <<"max">> ELSE <<"min">>]]

\* a variant of name that leaves the threshold side out
NameWithoutSide(alarm) ==
    Join(<<alarm.team, alarm.environment, alarm.hostclass, alarm.metric_name>>, "_")

\* DiscoAlarmConfig.name
name(alarm) ==
    Join(<<alarm.team, alarm.environment, alarm.hostclass, alarm.metric_name,
           alarm.threshold_type>>, "_")

\* a variant of dimensions that looks at custom_metric before the namespace
DimensionsCustomFirst(alarm) ==
    IF alarm.log_pattern_metric THEN EmptyDict
    ELSE IF alarm.custom_metric
    THEN Put(EmptyDict, "env_hostclass",
             Join(<<alarm.environment, alarm.hostclass>>, "_"))
    ELSE IF alarm.namespace = AWS_RDS
    THEN Put(EmptyDict, "DBInstanceIdentifier",
             Join(<<alarm.environment, alarm.hostclass>>, "-"))
    ELSE IF alarm.namespace = AWS_ELB
    THEN Put(EmptyDict, "LoadBalancerName",
             get_elb_id(alarm.environment, alarm.hostclass, FALSE))
    ELSE IF alarm.namespace = AWS_ES
    THEN Put(Put(EmptyDict, "DomainName", alarm.es_domain_name),
             "ClientId", alarm.es_client_id)
    ELSE Put(EmptyDict, "AutoScalingGroupName", alarm.autoscaling_group_name)

\* DiscoAlarmConfig.dimensions
dimensions(alarm) ==
    IF alarm.log_pattern_metric THEN EmptyDict
    ELSE IF alarm.namespace = AWS_RDS
    THEN Put(EmptyDict, "DBInstanceIdentifier",
             Join(<<alarm.environment, alarm.hostclass>>, "-"))
    ELSE IF alarm.namespace = AWS_ELB
    THEN Put(EmptyDict, "LoadBalancerName",
             get_elb_id(alarm.environment, alarm.hostclass, FALSE))
    ELSE IF alarm.namespace = AWS_ES
    THEN Put(Put(EmptyDict, "DomainName", alarm.es_domain_name),
             "ClientId", alarm.es_client_id)
    ELSE IF alarm.custom_metric
    THEN Put(EmptyDict, "env_hostclass",
             Join(<<alarm.environment, alarm.hostclass>>, "_"))
    ELSE Put(EmptyDict, "AutoScalingGroupName", alarm.autoscaling_group_name)

\* a variant of to_metric_alarm that evaluates over the period
ToMetricAlarmOverPeriod(alarm, policy_arn) ==
    [request |-> [alarm_actions |-> <<policy_arn>>, ok_actions |-> <<policy_arn>>,
                  comparison |-> IF alarm.threshold_type = <<"max">>
                                 THEN <<">">> ELSE <<"<">>,
                  dimensions |-> dimensions(alarm),
                  evaluation_periods |-> alarm.period,
                  metric |-> alarm.metric_name, name |-> name(alarm),
                  namespace |-> alarm.namespace, period |-> alarm.period,
                  statistic |-> alarm.statistic, threshold |-> alarm.threshold],
     self |-> alarm]

\* DiscoAlarmConfig.to_metric_alarm(policy_arn): the MetricAlarm built, and
\* the record, which the method only reads
to_metric_alarm(alarm, policy_arn) ==
    [request |-> [alarm_actions |-> <<policy_arn>>, ok_actions |-> <<policy_arn>>,
                  comparison |-> IF alarm.threshold_type = <<"max">>
                                 THEN <<">">> ELSE <<"<">>,
                  dimensions |-> dimensions(alarm),
                  evaluation_periods |-> alarm.duration,
                  metric |-> alarm.metric_name, name |-> name(alarm),
                  namespace |-> alarm.namespace, period |-> alarm.period,
                  statistic |-> alarm.statistic, threshold |-> alarm.threshold],
     self |-> alarm]

\* the result of decode_alarm_name that holds nothing: {}
NoParts == [empty |-> TRUE]

\* a variant of the decoding that takes every part after the third as metric
DecodeAlarmNameMetricToEnd(name_) ==
    LET parts == Split(name_, "_")
        n == Len(parts)
    IN  IF n >= 4
        THEN [empty |-> FALSE, team |-> parts[1], env |-> parts[2],
              hostclass |-> parts[3], metric_name |-> Join(SubSeq(parts, 4, n), "_"),
              threshold_type |-> parts[n]]
        ELSE NoParts

\* a variant of the decoding that takes the fourth part alone as metric
DecodeAlarmNameOneMetricPart(name_) ==
    LET parts == Split(name_, "_")
        n == Len(parts)
    IN  IF n >= 5
        THEN [empty |-> FALSE, team |-> parts[1], env |-> parts[2],
              hostclass |-> parts[3], metric_name |-> parts[4],
              threshold_type |-> parts[n]]
        ELSE IF n = 4
        THEN [empty |-> FALSE, team |-> None, env |-> parts[1],
              hostclass |-> parts[2], metric_name |-> parts[3],
              threshold_type |-> parts[4]]
        ELSE NoParts

\* DiscoAlarmConfig.decode_alarm_name(name): the dictionary of the parts,
\* or {} for a name of fewer than 4 parts; no path raises
decode_alarm_name(name_) ==
    LET parts == Split(name_, "_")
        n == Len(parts)
    IN  IF n >= 5
        THEN [empty |-> FALSE, team |-> parts[1], env |-> parts[2],
              hostclass |-> parts[3],
              metric_name |-> Join(SubSeq(parts, 4, n - 1), "_"),
              threshold_type |-> parts[n]]
        ELSE IF n = 4
        THEN [empty |-> FALSE, team |-> None, env |-> parts[1],
              hostclass |-> parts[2], metric_name |-> parts[3],
              threshold_type |-> parts[4]]
        ELSE NoParts

----------------------------------------------------------------------------
(* DiscoAlarmsConfig.get_alarms *)

\* a variant of the loop that looks at threshold_max alone
OnlyThresholdMax == <<"threshold_max">>

THRESHOLDS == <<"threshold_max", "threshold_min">>

\* a variant that accepts whatever int() parses, a signed number included
SignedThresholdValid(value) == IntParses(value)

\* the check of a threshold value (line 328)
ValidThreshold(value) == IsDigit(value)

\* the loop over threshold_max and threshold_min (lines 326-334), from the i-th
\* key on: [status, alarms]
RECURSIVE ThresholdAlarms(_, _, _)
ThresholdAlarms(options, i, alarms) ==
    IF i > Len(THRESHOLDS) THEN [status |-> "ok", alarms |-> alarms]
    ELSE LET threshold == THRESHOLDS[i]
         IN  IF threshold \in DOMAIN options
             THEN IF ValidThreshold(options[threshold])
                  THEN LET made == DiscoAlarmConfig(options, threshold = "threshold_max")
                       IN  IF made.status = "ok"
                           THEN ThresholdAlarms(options, i + 1, Append(alarms, made.alarm))
                           ELSE [status |-> made.status, alarms |-> <<>>]
                  ELSE [status |-> "AlarmConfigError", alarms |-> <<>>]
             ELSE ThresholdAlarms(options, i + 1, alarms)

\* a variant that passes over every section name that does not decode
SkipsEveryUndecodable(section) == TRUE

\* whether a section name that does not decode is passed over (line 304)
SkipsUndecodable(section) ==
    section \in {NOTIFICATION_SECTION_NAME, DEFAULT_SECTION_NAME}

\* a variant that resolves AWS/ES sections without the collaborator
SkipsOtherHostclassOnly(self, decoded, hostclass) ==
    Truthy(decoded.hostclass) /\ decoded.hostclass # hostclass

\* whether the loop leaves a section out before its options are resolved
\* (lines 308-315)
SkipsSection(self, decoded, hostclass) ==
    \/ Truthy(decoded.hostclass) /\ decoded.hostclass # hostclass
    \/ decoded.namespace = AWS_ES /\ ~self.elasticsearch.present

\* the loop over the sections (lines 298-335), from the i-th section on:
\* [status, alarms, self]
RECURSIVE GetAlarmsFrom(_, _, _, _, _)
GetAlarmsFrom(self, hostclass, autoscaling_group_name, i, alarms) ==
    IF i > Len(self.config) THEN [status |-> "ok", alarms |-> alarms, self |-> self]
    ELSE LET section == sections(self.config)[i]
             decoded == _decode_section_name(section)
             resolved == _get_alarm_specification_dict(
                             self, decoded.team, decoded.namespace, decoded.metric_name,
                             hostclass, decoded.hostclass = hostclass,
                             autoscaling_group_name)
             made == ThresholdAlarms(resolved.options, 1, <<>>)
             continue(s, found) ==
                 GetAlarmsFrom(s, hostclass, autoscaling_group_name, i + 1, found)
             raise(status, s) == [status |-> status, alarms |-> <<>>, self |-> s]
         IN  IF decoded.status # "ok"
             THEN IF SkipsUndecodable(section)
                  THEN continue(self, alarms)
                  ELSE raise(decoded.status, self)
             ELSE IF SkipsSection(self, decoded, hostclass)
             THEN continue(self, alarms)
             ELSE IF resolved.status # "ok" THEN raise(resolved.status, resolved.self)
             ELSE IF resolved.none \/ DOMAIN resolved.options = {}
             THEN continue(resolved.self, alarms)
             ELSE IF made.status # "ok" THEN raise(made.status, resolved.self)
             ELSE continue(resolved.self, alarms \o made.alarms)

get_alarms(self, hostclass, autoscaling_group_name) ==
    GetAlarmsFrom(self, hostclass, autoscaling_group_name, 1, <<>>)

----------------------------------------------------------------------------
(* DiscoAlarmsConfig.get_notifications *)

\* a variant that looks at the level before the environment
CheckNotificationLevelFirst(self, notification_name) ==
    LET notification_parts == Split(notification_name, "_")
        level == notification_parts[Len(notification_parts)]
        env == notification_parts[2]
    IN  IF Len(notification_parts) < 3 THEN "AlarmConfigError"
        ELSE IF ~LevelAllowed(level) THEN "AlarmConfigError"
        ELSE IF env # self.environment THEN "continue"
        ELSE "append"

\* what the loop does with one key of the section (lines 346-356)
CheckNotification(self, notification_name) ==
    LET notification_parts == Split(notification_name, "_")
        level == notification_parts[Len(notification_parts)]
        env == notification_parts[2]
    IN  IF Len(notification_parts) < 3 THEN "AlarmConfigError"
        ELSE IF env # self.environment THEN "continue"
        ELSE IF ~LevelAllowed(level) THEN "AlarmConfigError"
        ELSE "append"

\* DiscoNotification(name, endpoints)
DiscoNotification(name_, endpoints) == [name |-> name_, endpoints |-> endpoints]

\* the loop over options.iteritems(), in the order the dictionary gives
RECURSIVE NotificationsFrom(_, _, _, _, _)
NotificationsFrom(self, options, order, i, notifications) ==
    IF i > Len(order) THEN [status |-> "ok", notifications |-> notifications]
    ELSE LET notification_name == order[i]
             step == CheckNotification(self, notification_name)
         IN  IF step = "AlarmConfigError"
             THEN [status |-> "AlarmConfigError", notifications |-> <<>>]
             ELSE IF step = "continue"
             THEN NotificationsFrom(self, options, order, i + 1, notifications)
             ELSE NotificationsFrom(self, options, order, i + 1,
                      Append(notifications,
                             DiscoNotification(notification_name,
                                               Split(options[notification_name], ","))))

\* the orders a dictionary may enumerate its keys in
Orders(keys) ==
    { order \in [1..Cardinality(keys) -> keys] :
        \A i, j \in DOMAIN order : i # j => order[i] # order[j] }

\* get_notifications, the keys enumerated in the given order
get_notifications(self, order) ==
    IF ~has_section(self.config, NOTIFICATION_SECTION_NAME)
    THEN [status |-> "NoSectionError", notifications |-> <<>>]
    ELSE NotificationsFrom(self, items(self.config, NOTIFICATION_SECTION_NAME),
                           order, 1, <<>>)

----------------------------------------------------------------------------
(* DiscoELB.  aws == [load_balancers, records, effects]: the load balancers  *)
(* of the ELB service by name, the records of Route53 and the calls made on  *)
(* the two services, in order, while one operation runs.                     *)

Called(aws, op, target) ==
    [aws EXCEPT !.effects = Append(@, [op |-> op, target |-> target])]

\* the DNS name the ELB service gives a load balancer
DnsNameOf(load_balancer_name) == load_balancer_name \o <<".", "elb">>

\* vpc.get_vpc_id() of the current environment, and the id of another VPC
VpcId == <<"vpc", "-", "ci">>

OtherVpcId == <<"vpc", "-", "prod">>

\* the description of a load balancer just created; its subnets, which the
\* caller takes from the environment, put it in the environment's VPC
NewLoadBalancer(load_balancer_name) ==
    [LoadBalancerName |-> load_balancer_name, DNSName |-> DnsNameOf(load_balancer_name),
     VPCId |-> VpcId,
     HealthCheck |-> FALSE, sticky |-> FALSE, attributes |-> FALSE]

NoLoadBalancer == NewLoadBalancer(None)

\* elb_client.create_load_balancer
create_load_balancer(aws, load_balancer_name) ==
    LET called == Called(aws, "create_load_balancer", load_balancer_name)
    IN  IF load_balancer_name \in DOMAIN aws.load_balancers THEN called
        ELSE [called EXCEPT !.load_balancers =
                 Put(@, load_balancer_name, NewLoadBalancer(load_balancer_name))]

\* elb_client.delete_load_balancer
delete_load_balancer(aws, load_balancer_name) ==
    [Called(aws, "delete_load_balancer", load_balancer_name) EXCEPT
        !.load_balancers = [n \in DOMAIN @ \ {load_balancer_name} |-> @[n]]]

\* route53.create_record(zone, name, 'CNAME', value): the record of that name
\* is made or replaced
create_record(aws, record_name, value) ==
    [Called(aws, "create_record", record_name) EXCEPT
        !.records = { r \in @ : r.name # record_name }
                        \cup { [name |-> record_name, type |-> "CNAME", value |-> value] }]

\* route53.delete_records_by_value('CNAME', value)
delete_records_by_value(aws, value) ==
    [Called(aws, "delete_records_by_value", value) EXCEPT
        !.records = { r \in @ : ~(r.type = "CNAME" /\ r.value = value) }]

\* DiscoELB._get_elb: describe_load_balancers, a ClientError taken as None
_get_elb(aws, load_balancer_name) ==
    LET called == Called(aws, "describe_load_balancers", load_balancer_name)
    IN  IF load_balancer_name \in DOMAIN aws.load_balancers
        THEN [found |-> TRUE, elb |-> aws.load_balancers[load_balancer_name],
              aws |-> called]
        ELSE [found |-> FALSE, elb |-> NoLoadBalancer, aws |-> called]

\* DiscoELB.get_elb: self._get_elb(elb_id) or self._get_elb(elb_name)
get_elb(aws, environment_name, hostclass, testing) ==
    LET by_id == _get_elb(aws, get_elb_id(environment_name, hostclass, testing))
    IN  IF by_id.found THEN by_id
        ELSE _get_elb(by_id.aws, get_elb_name(environment_name, hostclass, testing))

\* DiscoELB.get_cname
get_cname(environment_name, hostclass, domain_name, testing) ==
    hostclass \o (IF testing THEN <<"-", "test">> ELSE <<>>) \o <<"-">>
        \o environment_name \o <<".">> \o domain_name

\* str.upper() of the protocol words of the model
Upper(protocol) ==
    CASE protocol = "http" -> "HTTP" [] protocol = "https" -> "HTTPS"
      [] protocol = "tcp" -> "TCP" [] OTHER -> protocol

\* str(n) of a natural number, as format() writes it
RECURSIVE Str(_)
Str(n) ==
    IF n < 10 THEN <<CHOOSE c \in Digits : DigitValue(c) = n>>
    ELSE Str(n \div 10) \o <<CHOOSE c \in Digits : DigitValue(c) = n % 10>>

\* DiscoELB._setup_health_check: configure_health_check on the load balancer,
\* with the target '{}:{}{}'.format(protocol, port, url)
_setup_health_check(aws, elb_id, health_check_url, port_mapping) ==
    LET url == IF Upper(port_mapping.internal_protocol) \in {"HTTP", "HTTPS"}
               THEN (IF Truthy(health_check_url) THEN health_check_url ELSE <<"/">>)
               ELSE <<>>
    IN  [[aws EXCEPT !.effects =
              Append(@, [op |-> "configure_health_check", target |-> elb_id,
                         Target |-> <<port_mapping.internal_protocol, ":">>
                                        \o Str(port_mapping.internal_port) \o url])]
            EXCEPT !.load_balancers[elb_id].HealthCheck = TRUE]

\* the mapping get_or_create_elb checks the health of (lines 332-349)
HealthCheckMapping(port_config) ==
    LET http_mappings ==
            SelectSeq(port_config,
                      LAMBDA mapping : mapping.internal_protocol \in {"HTTP", "HTTPS"})
    IN  IF http_mappings # <<>> THEN http_mappings[1] ELSE port_config[1]

\* DiscoELB._setup_sticky_cookies: an existing session policy is deleted, a
\* new one is made if a cookie is given
_setup_sticky_cookies(aws, elb_id, sticky_app_cookie) ==
    LET described == Called(aws, "describe_load_balancer_policies", elb_id)
        cleared ==
            IF aws.load_balancers[elb_id].sticky
            THEN Called(Called(described, "set_load_balancer_policies_of_listener", elb_id),
                        "delete_load_balancer_policy", elb_id)
            ELSE described
        made ==
            IF Truthy(sticky_app_cookie)
            THEN Called(Called(cleared, "create_cookie_stickiness_policy", elb_id),
                        "set_load_balancer_policies_of_listener", elb_id)
            ELSE cleared
    IN  [made EXCEPT !.load_balancers[elb_id].sticky = Truthy(sticky_app_cookie)]

\* DiscoELB._update_elb_attributes
_update_elb_attributes(aws, elb_id) ==
    [Called(aws, "modify_load_balancer_attributes", elb_id) EXCEPT
        !.load_balancers[elb_id].attributes = TRUE]

\* the part of get_or_create_elb after the load balancer is at hand (lines 325-365)
UpdateElb(aws, elb, environment_name, hostclass, hosted_zone_name, health_check_url, port_config, elb_dns_alias, sticky_app_cookie, testing) ==
    LET elb_id == elb.LoadBalancerName
        cname == get_cname(environment_name, hostclass, hosted_zone_name, testing)
        named == create_record(aws, cname, elb.DNSName)
        aliased ==
            IF Truthy(elb_dns_alias)
            THEN create_record(named, elb_dns_alias \o <<".">> \o hosted_zone_name,
                               elb.DNSName)
            ELSE named
    IN  [status |-> "ok", elb |-> elb,
         aws |-> _update_elb_attributes(
                     _setup_sticky_cookies(_setup_health_check(aliased, elb_id, health_check_url,
                                                               HealthCheckMapping(port_config)),
                                           elb_id, sticky_app_cookie),
                     elb_id)]

\* a variant of get_or_create_elb that creates the load balancer every time
GetOrCreateElbAlwaysCreating(aws, environment_name, hostclass, hosted_zone_name, health_check_url, port_config, elb_dns_alias, sticky_app_cookie, testing) ==
    LET elb_id == get_elb_id(environment_name, hostclass, testing)
        existing == get_elb(aws, environment_name, hostclass, testing)
        created == create_load_balancer(existing.aws, elb_id)
        again == get_elb(created, environment_name, hostclass, testing)
    IN  UpdateElb(again.aws, again.elb, environment_name, hostclass, hosted_zone_name,
                  health_check_url, port_config, elb_dns_alias, sticky_app_cookie,
                  testing)

\* DiscoELB.get_or_create_elb; tags are not given
get_or_create_elb(aws, environment_name, hostclass, hosted_zone_name, health_check_url, port_config, elb_dns_alias, sticky_app_cookie, testing) ==
    LET elb_id == get_elb_id(environment_name, hostclass, testing)
        existing == get_elb(aws, environment_name, hostclass, testing)
        created == create_load_balancer(existing.aws, elb_id)
        again == get_elb(created, environment_name, hostclass, testing)
    IN  IF existing.found
        THEN UpdateElb(existing.aws, existing.elb, environment_name, hostclass,
                       hosted_zone_name, health_check_url, port_config, elb_dns_alias, sticky_app_cookie, testing)
        ELSE IF again.found
        THEN UpdateElb(again.aws, again.elb, environment_name, hostclass,
                       hosted_zone_name, health_check_url, port_config, elb_dns_alias, sticky_app_cookie, testing)
        ELSE [status |-> "TypeError", elb |-> NoLoadBalancer, aws |-> again.aws]

\* DiscoELB.get_target_group_name: underscores become dashes, a name over 32
\* long is cut to 27 and given five characters of its hash
get_target_group_name(environment_name, hostclass) ==
    LET joined == environment_name \o <<"-">> \o hostclass
        target_group_name == [i \in 1..Len(joined) |->
                                 IF joined[i] = "_" THEN "-" ELSE joined[i]]
    IN  IF Len(target_group_name) > 32
        THEN SubSeq(target_group_name, 1, 27) \o <<"sha256:5">> \o target_group_name
        ELSE target_group_name

\* the ARN the ELBv2 service gives the target group of a name
ArnOf(target_group_name) == <<"arn", ":">> \o target_group_name

\* one call on elb2_client through throttled_call.  elb2 == [target_groups,
\* faults, effects]: the names of the target groups there are, the calls (by
\* their place among the calls made) that end in a ClientError, and the calls
\* made so far.  The call is recorded together with how it ended.
Elb2Fails(elb2) == (Len(elb2.effects) + 1) \in elb2.faults

Elb2Called(elb2, op, target, failed) ==
    [elb2 EXCEPT !.effects = Append(@, [op |-> op, target |-> target, failed |-> failed])]

\* DiscoELB.add_tags_to_target_groups
add_tags_to_target_groups(elb2, target_groups) ==
    Elb2Called(elb2, "add_tags", target_groups, Elb2Fails(elb2))

\* the arguments of create_target_group (lines 160-185); a port configuration
\* that is not given is the empty sequence
CreateTargetGroupArgs(port_config, health_check_path) ==
    LET mapping == port_config[1]
        given == port_config # <<>>
        protocol == IF ~given THEN "HTTP"
                    ELSE IF mapping.external_protocol = "SSL" THEN "TLS"
                    ELSE mapping.external_protocol
        port == IF given THEN mapping.external_port ELSE 80
        health_protocol == IF given THEN mapping.internal_protocol ELSE "HTTP"
        health_port == IF given THEN Str(mapping.internal_port) ELSE <<"8", "0">>
        path == IF Truthy(health_check_path) THEN health_check_path ELSE <<"/">>
    IN  [Protocol |-> protocol, Port |-> port, HealthCheckPort |-> health_port,
         HealthCheckProtocol |-> IF health_protocol \in {"HTTP", "HTTPS"}
                                 THEN health_protocol ELSE "TCP",
         HealthCheckPath |-> IF health_protocol \in {"HTTP", "HTTPS"} THEN path ELSE None]

\* the except branch of get_or_create_target_group (lines 158-198)
CreateTargetGroup(elb2, target_group_name, port_config, health_check_path, tags) ==
    LET failed == Elb2Fails(elb2)
        called == [elb2 EXCEPT !.effects =
                      Append(@, [op |-> "create_target_group",
                                 target |-> target_group_name, failed |-> failed,
                                 args |-> CreateTargetGroupArgs(port_config,
                                                                health_check_path)])]
        created == [called EXCEPT !.target_groups = @ \cup {target_group_name}]
        target_groups == <<ArnOf(target_group_name)>>
        tagged == add_tags_to_target_groups(created, target_groups)
    IN  IF failed
        THEN [status |-> "ClientError", target_groups |-> <<>>, elb2 |-> called]
        ELSE IF ~Truthy(tags)
        THEN [status |-> "ok", target_groups |-> target_groups, elb2 |-> created]
        ELSE IF Elb2Fails(created)
        THEN [status |-> "ClientError", target_groups |-> <<>>, elb2 |-> tagged]
        ELSE [status |-> "ok", target_groups |-> target_groups, elb2 |-> tagged]

\* DiscoELB.get_or_create_target_group: describe and add_tags are in one try
\* block, whose except branch creates the target group
get_or_create_target_group(elb2, environment_name, hostclass, port_config, health_check_path, tags) ==
    LET target_group_name == get_target_group_name(environment_name, hostclass)
        missing == Elb2Fails(elb2) \/ target_group_name \notin elb2.target_groups
        described == Elb2Called(elb2, "describe_target_groups", target_group_name, missing)
        target_groups == <<ArnOf(target_group_name)>>
        tagged == add_tags_to_target_groups(described, target_groups)
    IN  IF missing
        THEN CreateTargetGroup(described, target_group_name, port_config,
                               health_check_path, tags)
        ELSE IF ~Truthy(tags)
        THEN [status |-> "ok", target_groups |-> target_groups, elb2 |-> described]
        ELSE IF Elb2Fails(described)
        THEN CreateTargetGroup(tagged, target_group_name, port_config,
                               health_check_path, tags)
        ELSE [status |-> "ok", target_groups |-> target_groups, elb2 |-> tagged]

\* a variant of the test of a poll that is content with no instance at all
AllInState(instances, state) ==
    \A i \in DOMAIN instances : instances[i] = state

\* the test wait_for_instance_health_state makes of a poll (line 539): at
\* least one instance, and every instance in the state; instances is the
\* State of each InstanceId reported
InstancesInState(instances, state) ==
    /\ Cardinality(DOMAIN instances) >= 1
    /\ \A i \in DOMAIN instances : instances[i] = state

\* a variant of list that returns the load balancers of every VPC
ListOfEveryVpc(aws) ==
    [listed |-> { aws.load_balancers[n] : n \in DOMAIN aws.load_balancers },
     aws |-> Called(aws, "describe_load_balancers", None)]

\* DiscoELB.list: the load balancers described whose VPCId is the environment's
list(aws) ==
    [listed |-> { elb \in { aws.load_balancers[n] : n \in DOMAIN aws.load_balancers } :
                      elb.VPCId = VpcId },
     aws |-> Called(aws, "describe_load_balancers", None)]

\* the loop of destroy_all_elbs over the load balancers listed
RECURSIVE DestroyElbs(_, _)
DestroyElbs(aws, elbs) ==
    IF elbs = {} THEN aws
    ELSE LET elb == CHOOSE e \in elbs : TRUE
         IN  DestroyElbs(delete_load_balancer(delete_records_by_value(aws, elb.DNSName),
                                              elb.LoadBalancerName),
                         elbs \ {elb})

\* DiscoELB.destroy_all_elbs
destroy_all_elbs(aws) == DestroyElbs(list(aws).aws, list(aws).listed)

\* a variant of delete_elb that leaves the records of Route53 alone
DeleteElbKeepingRecords(aws, environment_name, hostclass, testing) ==
    LET elb == get_elb(aws, environment_name, hostclass, testing)
    IN  IF ~elb.found THEN elb.aws
        ELSE delete_load_balancer(elb.aws, elb.elb.LoadBalancerName)

\* DiscoELB.delete_elb
delete_elb(aws, environment_name, hostclass, testing) ==
    LET elb == get_elb(aws, environment_name, hostclass, testing)
    IN  IF ~elb.found THEN elb.aws
        ELSE delete_load_balancer(delete_records_by_value(elb.aws, elb.elb.DNSName),
                                  elb.elb.LoadBalancerName)

----------------------------------------------------------------------------
(* DiscoElasticsearch.update.  es == [present, environment_name, domains,    *)
(* configured, effects]: the domains of the Elasticsearch service by name,   *)
(* the Elasticsearch names the configuration has for the environment, in its *)
(* order, and the calls made on the service, Route53 and the alarms.         *)

\* an Elasticsearch configuration object: its DomainName and its
\* ElasticsearchVersion, the empty sequence when it has none
EsConfig(domain_name, version) ==
    [DomainName |-> domain_name, ElasticsearchVersion |-> version]

NoEsConfig == EsConfig(None, <<>>)

\* a variant of the listing that takes the domains of every environment
InternalNamesOfEveryEnvironment(es) ==
    { Join(SubSeq(Split(d, "-"), 2, Len(Split(d, "-")) - 1), "-") :
        d \in { n \in DOMAIN es.domains : Split(n, "-")[1] = <<"es">> } }

\* DiscoElasticsearch.list as update uses it: the internal names of the
\* domains 'es-$name-$env' of the current environment
InternalNames(es) ==
    { Join(SubSeq(Split(d, "-"), 2, Len(Split(d, "-")) - 1), "-") :
        d \in { n \in DOMAIN es.domains :
                   /\ Split(n, "-")[1] = <<"es">>
                   /\ Split(n, "-")[Len(Split(n, "-"))] = es.environment_name } }

\* DiscoElasticsearch._get_es_config, as far as update looks into it
_get_es_config(es, elasticsearch_name) ==
    EsConfig(get_domain_name(es, elasticsearch_name), <<"6", ".", "2">>)

\* DiscoElasticsearch._add_route53, the endpoint being attached
_add_route53(es, domain_name) ==
    [es EXCEPT !.effects = Append(@, [op |-> "create_record", target |-> domain_name])]

\* the body of the loop of update for one desired name (lines 271-304); the
\* alarms are created for the elasticsearch_name update was called with
UpdateDomain(es, desired_elasticsearch_name, elasticsearch_name, es_config) ==
    LET domain_name == get_domain_name(es, desired_elasticsearch_name)
        given == es_config # NoEsConfig
        desired_es_config ==
            IF given THEN es_config ELSE _get_es_config(es, desired_elasticsearch_name)
        exists == desired_elasticsearch_name \in InternalNames(es)
        called ==
            IF exists
            THEN [es EXCEPT !.effects =
                     Append(@, [op |-> "update_elasticsearch_domain_config",
                                target |-> desired_es_config.DomainName,
                                config |-> [desired_es_config EXCEPT
                                               !.ElasticsearchVersion = <<>>]])]
            ELSE [es EXCEPT !.effects =
                     Append(@, [op |-> "create_elasticsearch_domain",
                                target |-> desired_es_config.DomainName,
                                config |-> desired_es_config]),
                            !.domains =
                     Put(@, desired_es_config.DomainName,
                         <<"acct", "/">> \o desired_es_config.DomainName)]
        recorded == _add_route53(called, domain_name)
    IN  IF ~given /\ ~(\E k \in 1..Len(es.configured) :
                          es.configured[k] = desired_elasticsearch_name)
        THEN es
        ELSE [recorded EXCEPT !.effects =
                 Append(@, [op |-> "create_alarms", target |-> elasticsearch_name])]

\* the names update works on (lines 262-271)
DesiredElasticsearchNames(es, elasticsearch_name, es_config) ==
    IF es_config # NoEsConfig
    THEN << Join(SubSeq(Split(es_config.DomainName, "-"), 2,
                        Len(Split(es_config.DomainName, "-")) - 1), "-") >>
    ELSE IF Truthy(elasticsearch_name) THEN <<elasticsearch_name>>
    ELSE es.configured

\* the loop of update; the domains that exist are listed once, before it
RECURSIVE UpdateDomains(_, _, _, _, _)
UpdateDomains(es, listed, desired, elasticsearch_name, es_config) ==
    IF desired = <<>> THEN es
    ELSE LET done == UpdateDomain([es EXCEPT !.domains = listed], desired[1],
                                  elasticsearch_name, es_config)
             kept == [n \in DOMAIN es.domains \cup DOMAIN done.domains |->
                         IF n \in DOMAIN es.domains THEN es.domains[n]
                         ELSE done.domains[n]]
         IN  UpdateDomains([done EXCEPT !.domains = kept], listed, Tail(desired),
                           elasticsearch_name, es_config)

\* DiscoElasticsearch.update
update(es, elasticsearch_name, es_config) ==
    UpdateDomains(es, es.domains,
                  DesiredElasticsearchNames(es, elasticsearch_name, es_config),
                  elasticsearch_name, es_config)

----------------------------------------------------------------------------
(* DiscoESArchive.archive.  cluster == [indices, snapshots, total_in_bytes,  *)
(* free_in_bytes, effects]: the indices of the cluster, each [index, day,    *)
(* dated, size_in_bytes, green] (day orders the dated names, dated tells     *)
(* whether the name ends in a date), the snapshots, each [repository,        *)
(* snapshot, state], the disk of the cluster and the calls made on it.       *)

ES_SNAPSHOT_FINAL_STATES == { "SUCCESS", "FAILED" }

EsCalled(cluster, op, repository, target) ==
    [cluster EXCEPT !.effects =
        Append(@, [op |-> op, repository |-> repository, target |-> target])]

\* DiscoESArchive._bytes_to_free; the threshold is in hundredths
_bytes_to_free(cluster, threshold) ==
    (cluster.total_in_bytes * (100 - threshold)) \div 100 - cluster.free_in_bytes

\* the dated indices of the cluster, oldest first
RECURSIVE OldestFirst(_)
OldestFirst(indices) ==
    IF indices = {} THEN <<>>
    ELSE LET oldest == CHOOSE i \in indices : \A j \in indices : i.day <= j.day
         IN  <<oldest>> \o OldestFirst(indices \ {oldest})

\* the loop of _archivable_indices (lines 182-188)
RECURSIVE TakeUntilFreed(_, _, _)
TakeUntilFreed(index_sizes, bytes_to_free, freed_size) ==
    IF index_sizes = <<>> \/ freed_size > bytes_to_free THEN <<>>
    ELSE <<index_sizes[1].index>>
             \o TakeUntilFreed(Tail(index_sizes), bytes_to_free,
                               freed_size + index_sizes[1].size_in_bytes)

\* DiscoESArchive._archivable_indices
_archivable_indices(cluster, threshold) ==
    IF _bytes_to_free(cluster, threshold) <= 0 THEN <<>>
    ELSE TakeUntilFreed(OldestFirst({ i \in cluster.indices : i.dated }),
                        _bytes_to_free(cluster, threshold), 0)

\* DiscoESArchive._green_indices
_green_indices(cluster) == { i.index : i \in { j \in cluster.indices : j.green } }

\* DiscoESArchive.snapshot_state
snapshot_state(cluster, repository_name, snapshot) ==
    IF \E snap \in cluster.snapshots :
           snap.repository = repository_name /\ snap.snapshot = snapshot
    THEN (CHOOSE snap \in cluster.snapshots :
              snap.repository = repository_name /\ snap.snapshot = snapshot).state
    ELSE "unknown"

\* the body of the loop of archive for one index (lines 360-385); snap_state
\* is the state the snapshot comes to while _wait_for_snapshot polls.  The
\* snapshot is made and looked up in repository_name and deleted from 's3'.
ArchiveIndex(cluster, repository_name, index, snap_state) ==
    LET created == [EsCalled(cluster, "snapshot.create", repository_name, index)
                       EXCEPT !.snapshots = @ \cup { [repository |-> repository_name,
                                                      snapshot |-> index,
                                                      state |-> snap_state] }]
        deleted == [EsCalled(created, "indices.delete", None, index)
                       EXCEPT !.indices = { i \in @ : i.index # index }]
        removed == [EsCalled(created, "snapshot.delete", "s3", index)
                       EXCEPT !.snapshots = { snap \in @ : ~(snap.repository = "s3"
                                                            /\ snap.snapshot = index) }]
    IN  IF snapshot_state(cluster, repository_name, index) # "unknown"
        THEN [status |-> "ok", state |-> "skipped", cluster |-> cluster]
        ELSE IF snap_state \notin ES_SNAPSHOT_FINAL_STATES
        THEN [status |-> "TimeoutError", state |-> snap_state, cluster |-> created]
        ELSE IF snap_state = "SUCCESS"
        THEN [status |-> "ok", state |-> snap_state, cluster |-> deleted]
        ELSE IF snapshot_state(created, "s3", index) = "unknown"
        THEN [status |-> "NotFoundError", state |-> snap_state,
              cluster |-> EsCalled(created, "snapshot.delete", "s3", index)]
        ELSE [status |-> "ok", state |-> snap_state, cluster |-> removed]

\* DiscoESArchive.archive.  element is what list(green_archivable)[11] gives,
\* the order of a list made of a set being any; the one index it leaves is
\* archived
archive(cluster, repository_name, threshold, element, snap_state) ==
    LET indices == _archivable_indices(cluster, threshold)
        archivable == { indices[k] : k \in 1..Len(indices) }
        green_archivable == archivable \cap _green_indices(cluster)
        ungreen_archivable == archivable \ _green_indices(cluster)
        repository == EsCalled(cluster, "snapshot.create_repository", repository_name, None)
        archived == ArchiveIndex(repository, repository_name, element, snap_state)
    IN  IF threshold > 100
        THEN [status |-> "RuntimeError", returned |-> FALSE, skipped |-> {},
              state |-> "none", index |-> None, cluster |-> cluster]
        ELSE IF green_archivable = {}
        THEN [status |-> "ok", returned |-> FALSE, skipped |-> {},
              state |-> "none", index |-> None, cluster |-> cluster]
        ELSE IF Cardinality(green_archivable) < 11 + 1
        THEN [status |-> "IndexError", returned |-> FALSE, skipped |-> {},
              state |-> "none", index |-> None, cluster |-> repository]
        ELSE [status |-> archived.status, returned |-> archived.status = "ok",
              skipped |-> ungreen_archivable
                              \cup (IF archived.state = "skipped" THEN {element} ELSE {}),
              state |-> archived.state, index |-> element, cluster |-> archived.cluster]

----------------------------------------------------------------------------
(* The configurations, collaborators and arguments the model draws from *)

Sec(section, options) == [name |-> section, items |-> options]

Environment == <<"ci">>
Web == <<"web">>
Db == <<"db">>
Hostclasses == {Web, Db}
GroupNames == {None, <<"grp">>}

Parent == <<"t", ".", "ns", ".", "m">>
Child == Parent \o <<".">> \o Web
OtherChild == Parent \o <<".">> \o Db
SearchParent == <<"t", ".">> \o AWS_ES \o <<".", "m">>
SearchChild == SearchParent \o <<".">> \o Web

\* options that make a complete alarm once a threshold is added
BaseDefaults ==
    [duration |-> <<"5">>, period |-> <<"6", "0">>, statistic |-> <<"Average">>,
     custom_metric |-> <<"false">>, level |-> <<"critical">>]

Restrict(d, keys) == [k \in DOMAIN d \cap keys |-> d[k]]

\* the dictionary of the keys that are given a value (None: the key is absent)
Given(choice) == Restrict(choice, {k \in DOMAIN choice : choice[k] # None})

\* Layering: which of two keys each of defaults, parent and child defines,
\* each layer with values of its own, and the order of parent and child
LayerKeys == {"threshold_max", "threshold_min"}

LayerValue(layer, key) ==
    << CASE layer = "defaults" -> "1" [] layer = "parent" -> "2" [] layer = "child" -> "3",
       CASE key = "threshold_max" -> "1" [] key = "threshold_min" -> "2" >>

Layer(layer, keys) == [k \in keys |-> LayerValue(layer, k)]

Arrange(shape, d, p, c) ==
    CASE shape = "P" -> <<d, p>>
      [] shape = "C" -> <<d, c>>
      [] shape = "PC" -> <<d, p, c>>
      [] shape = "CP" -> <<d, c, p>>

LayeringConfigs ==
    { Arrange(shape,
              Sec(DEFAULT_SECTION_NAME,
                  Update(BaseDefaults, Layer("defaults", kd))),
              Sec(Parent, Layer("parent", kp)),
              Sec(Child, Layer("child", kc))) :
        shape \in {"P", "C", "PC", "CP"},
        kd \in SUBSET LayerKeys, kp \in SUBSET LayerKeys, kc \in SUBSET LayerKeys }

\* Validity: one alarm section whose thresholds, duration, period and level are
\* valid, invalid or absent
ValidityItems ==
    { Given([threshold_max |-> tmax, threshold_min |-> tmin, duration |-> dur,
             period |-> per, level |-> lvl]) :
        tmax \in {None, <<"8", "0">>, <<"x">>},
        tmin \in {None, <<"1", "0">>, <<"-", "1">>},
        dur \in {<<"5">>, <<"0">>, <<"-", "1">>, <<"x">>},
        per \in {<<"6", "0">>, <<"x">>},
        lvl \in {None, <<"critical">>, <<"bogus">>} }

ValidityConfigs ==
    { << Sec(DEFAULT_SECTION_NAME, Restrict(BaseDefaults, {"statistic", "custom_metric"})),
         Sec(section, options) >> :
        section \in {Parent}, options \in ValidityItems }

\* Overrides: one layer defines options named like the synthesized fields
SynthesizedKeys == {"team", "namespace", "metric_name", "hostclass", "environment"}

Overriding(keys) == [k \in keys |-> <<"zz">>]

OverrideConfigs ==
    { << Sec(DEFAULT_SECTION_NAME,
             Update(BaseDefaults, IF layer = "defaults" THEN Overriding(keys) ELSE EmptyDict)),
         Sec(Parent,
             Update([threshold_max |-> <<"8", "0">>],
                    IF layer = "parent" THEN Overriding(keys) ELSE EmptyDict)),
         Sec(Child,
             Update([threshold_min |-> <<"1", "0">>],
                    IF layer = "child" THEN Overriding(keys) ELSE EmptyDict)),
         Sec(OtherChild, [threshold_max |-> <<"7">>]) >> :
        layer \in {"defaults", "parent", "child"}, keys \in SUBSET SynthesizedKeys }

\* Structure: up to MaxSections sections with names of every shape, in any
\* order, after a defaults section or without one
SectionPool ==
    { NOTIFICATION_SECTION_NAME, <<"bad">>, <<"t", ".", "ns">>,
      Parent, Child, SearchParent,
      <<"t", ".">> \o AWS_EC2 \o <<".", "m">>,
      Child \o <<".">> \o Web }

StandardItems(section) ==
    IF section = DEFAULT_SECTION_NAME THEN BaseDefaults
    ELSE IF Len(Split(section, ".")) >= 3 THEN [threshold_max |-> <<"8", "0">>]
    ELSE EmptyDict

SectionOrders ==
    { order \in UNION { [1..n -> SectionPool] : n \in 0..MaxSections } :
        \A i, j \in DOMAIN order : i # j => order[i] # order[j] }

StructureConfigs ==
    { [i \in 1..Len(front \o order) |->
          Sec((front \o order)[i], StandardItems((front \o order)[i]))] :
        front \in { <<>>, <<DEFAULT_SECTION_NAME>> }, order \in SectionOrders }

\* Search: an AWS/ES section, valid or not, beside an ordinary section
SearchItems ==
    { [threshold_max |-> <<"8", "0">>, threshold_min |-> <<"1", "0">>],
      [threshold_max |-> <<"x">>],
      [threshold_max |-> <<"8", "0">>, level |-> <<"bogus">>],
      [threshold_min |-> <<"1", "0">>, duration |-> <<"x">>] }

SearchConfigs ==
    { Arrange(shape, Sec(DEFAULT_SECTION_NAME, BaseDefaults),
              Sec(Parent, [threshold_max |-> <<"8", "0">>]),
              Sec(section, options)) :
        shape \in {"C", "PC", "CP"}, section \in {SearchParent, SearchChild},
        options \in SearchItems }

\* Log patterns: defaults, parent and child mark the metric as log-derived,
\* deny it or say nothing
LogMarks == { None, <<"Yes">>, <<"no">> }

LogConfigs ==
    { Arrange(shape,
              Sec(DEFAULT_SECTION_NAME,
                  Update(BaseDefaults, Given([log_pattern_metric |-> d]))),
              Sec(Parent, Update([threshold_max |-> <<"8", "0">>],
                                 Given([log_pattern_metric |-> p]))),
              Sec(Child, Update([threshold_min |-> <<"1", "0">>],
                                Given([log_pattern_metric |-> c])))) :
        shape \in {"P", "PC", "CP"},
        d \in { None, <<"true">> }, p \in LogMarks, c \in LogMarks }

\* Groups: an AWS/EC2 section beside an ordinary one, with or without an
\* autoscaling_group_name option of their own
ComputeParent == <<"t", ".">> \o AWS_EC2 \o <<".", "m">>

GroupConfigs ==
    { << Sec(DEFAULT_SECTION_NAME, BaseDefaults),
         Sec(ComputeParent, Update([threshold_max |-> <<"8", "0">>],
                                   Given([autoscaling_group_name |-> own]))),
         Sec(Parent, Update([threshold_min |-> <<"1", "0">>],
                            Given([autoscaling_group_name |-> other]))) >> :
        own \in { None, <<"cfg">> }, other \in { None, <<"cfg">> } }

\* Empty defaults: the defaults section is there and holds nothing, two
\* sections bring every option themselves
EmptyDefaultsConfigs ==
    { << Sec(DEFAULT_SECTION_NAME, EmptyDict),
         Sec(Parent, Update(BaseDefaults, [threshold_max |-> <<"8", "0">>])),
         Sec(second, Update(BaseDefaults, [threshold_min |-> <<"1", "0">>])) >> :
        second \in { ComputeParent, OtherChild } }

\* Notifications: up to MaxNotifications keys of the notifications section, of
\* this environment or another, with levels in the set or not, of 2, 3 or 4
\* parts, each with one or two endpoints
NotificationKeys ==
    { <<"t", "_", "ci", "_", "critical">>, <<"t", "_", "ci", "_", "bogus">>,
      <<"t", "_", "prod", "_", "bogus">>, <<"t", "_", "ci">>,
      <<"t", "_", "ci", "_", "x", "_", "info">> }

Endpoints == { <<"a">>, <<"a", ",", "b">> }

NotificationItems ==
    UNION { [keys -> Endpoints] :
              keys \in { k \in SUBSET NotificationKeys : Cardinality(k) <= MaxNotifications } }

NotificationConfigs ==
    { << Sec(DEFAULT_SECTION_NAME, BaseDefaults), Sec(NOTIFICATION_SECTION_NAME, d) >> :
        d \in NotificationItems }

\* the collaborators: [elasticsearch, groups, autoscale]
Elasticsearch(domains) ==
    [present |-> TRUE, environment_name |-> Environment, domains |-> domains]

WebDomain == <<"es", "-">> \o Web \o <<"-">> \o Environment

World0 ==
    [elasticsearch |-> NoElasticsearch, groups |-> [h \in {Web} |-> <<"asg">>],
     autoscale |-> "None"]

Worlds ==
    { World0,
      [elasticsearch |-> Elasticsearch([d \in {WebDomain} |-> <<"acct", "/">> \o WebDomain]),
       groups |-> [h \in {Web} |-> <<"asg">>], autoscale |-> "injected"],
      [elasticsearch |-> Elasticsearch(EmptyDict), groups |-> EmptyDict,
       autoscale |-> "None"] }

Inputs ==
    ((LayeringConfigs \cup ValidityConfigs \cup OverrideConfigs \cup LogConfigs
          \cup NotificationConfigs) \X {World0})
    \cup ((StructureConfigs \cup SearchConfigs \cup GroupConfigs \cup EmptyDefaultsConfigs)
         \X Worlds)

----------------------------------------------------------------------------
(* The resolver as a state machine *)

Self ==
    [config |-> config, environment |-> environment, elasticsearch |-> elasticsearch,
     _autoscale |-> _autoscale, _defaults |-> _defaults, groups |-> groups,
     effects |-> <<>>]

NoCall == [op |-> "none"]

Constructed(cfg, world) ==
    /\ config = cfg
    /\ environment = Environment
    /\ elasticsearch = world.elasticsearch
    /\ _autoscale = world.autoscale
    /\ _defaults = NoDefaults
    /\ groups = world.groups
    /\ load_balancers = EmptyDict
    /\ records = {}
    /\ call = NoCall
    /\ ret = NoCall

Init == \E input \in Inputs : Constructed(input[1], input[2])

GetAlarms ==
    \E hostclass \in Hostclasses, autoscaling_group_name \in GroupNames :
        LET r == get_alarms(Self, hostclass, autoscaling_group_name)
        IN  /\ call' = [op |-> "get_alarms", hostclass |-> hostclass,
                        autoscaling_group_name |-> autoscaling_group_name]
            /\ ret' = [status |-> r.status, alarms |-> r.alarms,
                       effects |-> r.self.effects]
            /\ _defaults' = r.self._defaults
            /\ _autoscale' = r.self._autoscale
            /\ UNCHANGED <<config, environment, elasticsearch, groups,
                         load_balancers, records>>

\* the team, namespace and metric name of every alarm section of a configuration
Decoded(cfg) ==
    { [team |-> d.team, namespace |-> d.namespace, metric_name |-> d.metric_name] :
        d \in { d \in { _decode_section_name(cfg[i].name) : i \in 1..Len(cfg) } :
                   d.status = "ok" } }

GetAlarmSpecificationDict ==
    \E decoded \in Decoded(config), hostclass \in Hostclasses,
       hostclass_specific \in BOOLEAN, autoscaling_group_name \in {None} :
        LET r == _get_alarm_specification_dict(
                     Self, decoded.team, decoded.namespace, decoded.metric_name,
                     hostclass, hostclass_specific, autoscaling_group_name)
        IN  /\ call' = [op |-> "_get_alarm_specification_dict", team |-> decoded.team,
                        namespace |-> decoded.namespace,
                        metric_name |-> decoded.metric_name, hostclass |-> hostclass,
                        hostclass_specific |-> hostclass_specific,
                        autoscaling_group_name |-> autoscaling_group_name]
            /\ ret' = [status |-> r.status, none |-> r.none, options |-> r.options,
                       effects |-> r.self.effects]
            /\ _defaults' = r.self._defaults
            /\ _autoscale' = r.self._autoscale
            /\ UNCHANGED <<config, environment, elasticsearch, groups,
                           load_balancers, records>>

\* the keys of the notifications section, none if there is no such section
NotificationNames(cfg) ==
    IF has_section(cfg, NOTIFICATION_SECTION_NAME)
    THEN DOMAIN items(cfg, NOTIFICATION_SECTION_NAME)
    ELSE {}

GetNotifications ==
    \E order \in Orders(NotificationNames(config)) :
        LET r == get_notifications(Self, order)
        IN  /\ call' = [op |-> "get_notifications", order |-> order]
            /\ ret' = [status |-> r.status, notifications |-> r.notifications]
            /\ UNCHANGED <<config, environment, elasticsearch, _autoscale, _defaults,
                           groups, load_balancers, records>>

Next == GetAlarms \/ GetAlarmSpecificationDict \/ GetNotifications

Spec == Init /\ [][Next]_vars

----------------------------------------------------------------------------
(* _decode_section_name alone, on every string of up to MaxNameLen characters *)

NameChars == {".", "a", "b"}

SectionNames == UNION { [1..n -> NameChars] : n \in 0..MaxNameLen }

\* the name to decode is drawn at the start
InitDecode ==
    \E section \in SectionNames :
        /\ config = <<>>
        /\ environment = Environment
        /\ elasticsearch = World0.elasticsearch
        /\ _autoscale = World0.autoscale
        /\ _defaults = NoDefaults
        /\ groups = World0.groups
        /\ load_balancers = EmptyDict
        /\ records = {}
        /\ call = [op |-> "input", section |-> section]
        /\ ret = NoCall

DecodeSectionName ==
    /\ call.op = "input"
    /\ call' = [op |-> "_decode_section_name", section |-> call.section]
    /\ ret' = _decode_section_name(call.section)
    /\ UNCHANGED <<config, environment, elasticsearch, _autoscale, _defaults, groups,
                 load_balancers, records>>

NextDecode == DecodeSectionName

SpecDecode == InitDecode /\ [][NextDecode]_vars

----------------------------------------------------------------------------
(* The alarm record alone: decode_alarm_name on every string of up to       *)
(* MaxNameLen characters, and the properties and methods of the records     *)
(* that DiscoAlarmConfig builds from a family of option sets                *)

AlarmNameChars == {"_", "a", "b"}

AlarmNames == UNION { [1..n -> AlarmNameChars] : n \in 0..MaxNameLen }

\* complete options whose team, environment, hostclass and metric name hold
\* underscores or not, over the namespaces that dimensions tells apart
RecordOptions ==
    { Update(
        Given([team |-> team, environment |-> env, hostclass |-> hostclass,
               metric_name |-> metric, namespace |-> namespace,
               custom_metric |-> custom, log_pattern_metric |-> logs,
               autoscaling_group_name |-> asg,
               es_domain_name |-> IF es THEN WebDomain ELSE None,
               es_client_id |-> IF es THEN <<"acct">> ELSE None]),
        [duration |-> <<"5">>, period |-> <<"6", "0">>, statistic |-> <<"Average">>,
         level |-> <<"critical">>, threshold_max |-> <<"8", "0">>,
         threshold_min |-> <<"1", "0">>]) :
        team \in { <<"t">>, <<"t", "_", "x">> },
        env \in { Environment, <<"c", "_", "i">> },
        hostclass \in { Web, <<"w", "_", "b">> },
        metric \in { <<"m">>, <<"m", "_", "n">>, <<"m", "_">> },
        namespace \in { <<"ns">>, AWS_EC2, AWS_ES, AWS_RDS, AWS_ELB },
        custom \in { <<"true">>, <<"false">> },
        logs \in { None, <<"true">>, <<"no">> },
        asg \in { None, <<"grp">> },
        es \in BOOLEAN }

Records ==
    { DiscoAlarmConfig(options, maximum).alarm :
        options \in RecordOptions, maximum \in BOOLEAN }

\* no resolver in use
NoResolver ==
    /\ config = <<>>
    /\ environment = Environment
    /\ elasticsearch = World0.elasticsearch
    /\ _autoscale = World0.autoscale
    /\ _defaults = NoDefaults
    /\ groups = World0.groups

Idle ==
    /\ NoResolver
    /\ load_balancers = EmptyDict
    /\ records = {}
    /\ ret = NoCall

\* the name to decode, or the record to use, is drawn at the start
InitAlarm ==
    /\ Idle
    /\ \/ \E name_ \in AlarmNames : call = [op |-> "input", kind |-> "name", name |-> name_]
       \/ \E alarm \in Records : call = [op |-> "input", kind |-> "alarm", alarm |-> alarm]

DecodeAlarmName ==
    /\ call.op = "input" /\ call.kind = "name"
    /\ call' = [op |-> "decode_alarm_name", name |-> call.name]
    /\ ret' = decode_alarm_name(call.name)
    /\ UNCHANGED <<config, environment, elasticsearch, _autoscale, _defaults, groups,
                 load_balancers, records>>

\* DiscoAlarmConfig.decode_alarm_name(alarm.name)
DecodeOwnName ==
    /\ call.op = "input" /\ call.kind = "alarm"
    /\ call' = [op |-> "decode_own_name", alarm |-> call.alarm]
    /\ ret' = decode_alarm_name(name(call.alarm))
    /\ UNCHANGED <<config, environment, elasticsearch, _autoscale, _defaults, groups,
                 load_balancers, records>>

Dimensions ==
    /\ call.op = "input" /\ call.kind = "alarm"
    /\ call' = [op |-> "dimensions", alarm |-> call.alarm]
    /\ ret' = [dimensions |-> dimensions(call.alarm)]
    /\ UNCHANGED <<config, environment, elasticsearch, _autoscale, _defaults, groups,
                 load_balancers, records>>

PolicyArns == { <<"arn", ":", "a">>, <<"arn", ":", "b">> }

ToMetricAlarm ==
    /\ call.op = "input" /\ call.kind = "alarm"
    /\ \E policy_arn \in PolicyArns :
           LET r == to_metric_alarm(call.alarm, policy_arn)
           IN  /\ call' = [op |-> "to_metric_alarm", alarm |-> call.alarm,
                           policy_arn |-> policy_arn]
               /\ ret' = [request |-> r.request, alarm |-> r.self]
    /\ UNCHANGED <<config, environment, elasticsearch, _autoscale, _defaults, groups,
                 load_balancers, records>>

NextAlarm == DecodeAlarmName \/ DecodeOwnName \/ Dimensions \/ ToMetricAlarm

SpecAlarm == InitAlarm /\ [][NextAlarm]_vars

----------------------------------------------------------------------------
(* DiscoELB as a state machine: one DiscoELB of the environment, on an ELB   *)
(* service that starts empty, or with the load balancer of one hostclass     *)
(* under its hashed id or under its old-style name                           *)

HostedZone == <<"example", ".", "com">>

Aws == [load_balancers |-> load_balancers, records |-> records, effects |-> <<>>]

\* a load balancer as get_or_create_elb leaves it, with its CNAME record
Existing(load_balancer_name) ==
    [load_balancers |->
         Put(EmptyDict, load_balancer_name,
             [NewLoadBalancer(load_balancer_name) EXCEPT
                 !.HealthCheck = TRUE, !.attributes = TRUE]),
     records |-> { [name |-> get_cname(Environment, Web, HostedZone, FALSE),
                    type |-> "CNAME", value |-> DnsNameOf(load_balancer_name)] }]

\* the load balancer of another environment, in its own VPC
OtherEnvironment == <<"prod">>

Foreign ==
    [load_balancers |->
         Put(EmptyDict, get_elb_id(OtherEnvironment, Web, FALSE),
             [NewLoadBalancer(get_elb_id(OtherEnvironment, Web, FALSE)) EXCEPT
                 !.VPCId = OtherVpcId, !.HealthCheck = TRUE, !.attributes = TRUE]),
     records |-> { [name |-> Web \o <<"-">> \o OtherEnvironment \o <<".">> \o HostedZone,
                    type |-> "CNAME",
                    value |-> DnsNameOf(get_elb_id(OtherEnvironment, Web, FALSE))] }]

\* the services of two accounts' worth of load balancers put together
Both(a, b) ==
    [load_balancers |->
         [n \in DOMAIN a.load_balancers \cup DOMAIN b.load_balancers |->
              IF n \in DOMAIN a.load_balancers THEN a.load_balancers[n]
              ELSE b.load_balancers[n]],
     records |-> a.records \cup b.records]

OwnServices ==
    { [load_balancers |-> EmptyDict, records |-> {}],
      Existing(get_elb_id(Environment, Web, FALSE)),
      Existing(get_elb_name(Environment, Web, FALSE)) }

InitialServices == OwnServices \cup { Both(own, Foreign) : own \in OwnServices }

InitElb ==
    /\ NoResolver
    /\ call = NoCall
    /\ ret = NoCall
    /\ \E services \in InitialServices :
           /\ load_balancers = services.load_balancers
           /\ records = services.records

\* a DiscoELBPortMapping, by its instance side
Mapping(internal_protocol, internal_port) ==
    [internal_protocol |-> internal_protocol, internal_port |-> internal_port]

InstanceProtocols == {"HTTP", "HTTPS", "TCP", "http"}

\* port configurations of one or two mappings
PortConfigs ==
    { <<Mapping(a, 9001)>> : a \in InstanceProtocols }
        \cup { <<Mapping(a, 9001), Mapping(b, 4271)>> : a, b \in InstanceProtocols }

HealthCheckUrls == { None, <<"/", "health">> }

DefaultPortConfig == <<Mapping("HTTP", 80)>>

GetOrCreateElb ==
    \E hostclass \in Hostclasses, testing \in BOOLEAN,
       elb_dns_alias \in { None, <<"alias">> }, sticky_app_cookie \in { None, <<"ELB">> } :
        LET r == get_or_create_elb(Aws, environment, hostclass, HostedZone,
                                   None, DefaultPortConfig,
                                   elb_dns_alias, sticky_app_cookie, testing)
        IN  /\ call' = [op |-> "get_or_create_elb", hostclass |-> hostclass,
                        testing |-> testing, elb_dns_alias |-> elb_dns_alias,
                        sticky_app_cookie |-> sticky_app_cookie,
                        found |-> get_elb(Aws, environment, hostclass, testing).found,
                        elb |-> get_elb(Aws, environment, hostclass, testing).elb]
            /\ ret' = [status |-> r.status, elb |-> r.elb, effects |-> r.aws.effects]
            /\ load_balancers' = r.aws.load_balancers
            /\ records' = r.aws.records
            /\ UNCHANGED <<config, environment, elasticsearch, _autoscale, _defaults,
                           groups>>

DeleteElb ==
    \E hostclass \in Hostclasses, testing \in BOOLEAN :
        LET aws == delete_elb(Aws, environment, hostclass, testing)
        IN  /\ call' = [op |-> "delete_elb", hostclass |-> hostclass, testing |-> testing,
                        found |-> get_elb(Aws, environment, hostclass, testing).found,
                        elb |-> get_elb(Aws, environment, hostclass, testing).elb]
            /\ ret' = [status |-> "ok", effects |-> aws.effects]
            /\ load_balancers' = aws.load_balancers
            /\ records' = aws.records
            /\ UNCHANGED <<config, environment, elasticsearch, _autoscale, _defaults,
                           groups>>

GetElb ==
    \E hostclass \in Hostclasses, testing \in BOOLEAN :
        LET r == get_elb(Aws, environment, hostclass, testing)
        IN  /\ call' = [op |-> "get_elb", hostclass |-> hostclass, testing |-> testing]
            /\ ret' = [status |-> "ok", found |-> r.found, elb |-> r.elb,
                       effects |-> r.aws.effects]
            /\ UNCHANGED <<config, environment, elasticsearch, _autoscale, _defaults,
                           groups, load_balancers, records>>

List ==
    LET r == list(Aws)
    IN  /\ call' = [op |-> "list"]
        /\ ret' = [status |-> "ok", listed |-> r.listed, effects |-> r.aws.effects]
        /\ UNCHANGED <<config, environment, elasticsearch, _autoscale, _defaults,
                       groups, load_balancers, records>>

DestroyAllElbs ==
    LET aws == destroy_all_elbs(Aws)
    IN  /\ call' = [op |-> "destroy_all_elbs", load_balancers |-> load_balancers]
        /\ ret' = [status |-> "ok", effects |-> aws.effects]
        /\ load_balancers' = aws.load_balancers
        /\ records' = aws.records
        /\ UNCHANGED <<config, environment, elasticsearch, _autoscale, _defaults,
                       groups>>

NextElb == GetOrCreateElb \/ DeleteElb \/ GetElb \/ List \/ DestroyAllElbs

SpecElb == InitElb /\ [][NextElb]_vars

----------------------------------------------------------------------------
(* get_or_create_elb over port configurations: the services, the hostclass,  *)
(* the port configuration and the health check URL are drawn at the start   *)
(* and the call is made on them                                              *)

InitPorts ==
    /\ NoResolver
    /\ ret = NoCall
    /\ \E services \in InitialServices :
           /\ load_balancers = services.load_balancers
           /\ records = services.records
    /\ \E hostclass \in Hostclasses, testing \in BOOLEAN,
          port_config \in PortConfigs, health_check_url \in HealthCheckUrls :
           call = [op |-> "input", hostclass |-> hostclass, testing |-> testing,
                   port_config |-> port_config, health_check_url |-> health_check_url]

GetOrCreateElbOverPorts ==
    /\ call.op = "input"
    /\ LET r == get_or_create_elb(Aws, environment, call.hostclass, HostedZone,
                                  call.health_check_url, call.port_config,
                                  None, None, call.testing)
       IN  /\ call' = [call EXCEPT !.op = "get_or_create_elb"]
           /\ ret' = [status |-> r.status, elb |-> r.elb, effects |-> r.aws.effects]
           /\ load_balancers' = r.aws.load_balancers
           /\ records' = r.aws.records
           /\ UNCHANGED <<config, environment, elasticsearch, _autoscale, _defaults,
                          groups>>

NextPorts == GetOrCreateElbOverPorts

SpecPorts == InitPorts /\ [][NextPorts]_vars

----------------------------------------------------------------------------
(* get_or_create_target_group on an ELBv2 service whose calls may end in a   *)
(* ClientError: the target groups there are, the calls that fail and the     *)
(* arguments are drawn at the start                                          *)

\* a DiscoELBPortMapping
PortMapping(internal_port, internal_protocol, external_port, external_protocol) ==
    [internal_port |-> internal_port, internal_protocol |-> internal_protocol,
     external_port |-> external_port, external_protocol |-> external_protocol]

TargetGroupPortConfigs ==
    { <<>>, <<PortMapping(80, "HTTP", 443, "HTTPS")>>, <<PortMapping(9001, "TCP", 443, "SSL")>> }

TargetGroupTags == { None, <<"fake-key", "=", "fake-value">> }

\* at most four calls are made on elb2_client in one operation
Elb2Faults == SUBSET (1..4)

InitTargetGroup ==
    /\ NoResolver
    /\ ret = NoCall
    /\ load_balancers = EmptyDict
    /\ records = {}
    /\ \E hostclass \in Hostclasses, existing \in SUBSET Hostclasses,
          faults \in Elb2Faults, port_config \in TargetGroupPortConfigs,
          tags \in TargetGroupTags :
           call = [op |-> "input", hostclass |-> hostclass, port_config |-> port_config,
                   tags |-> tags, faults |-> faults,
                   target_groups |-> { get_target_group_name(Environment, h) :
                                           h \in existing }]

GetOrCreateTargetGroup ==
    /\ call.op = "input"
    /\ LET r == get_or_create_target_group(
                    [target_groups |-> call.target_groups, faults |-> call.faults,
                     effects |-> <<>>],
                    environment, call.hostclass, call.port_config, None, call.tags)
       IN  /\ call' = [call EXCEPT !.op = "get_or_create_target_group"]
           /\ ret' = [status |-> r.status, arns |-> r.target_groups,
                      effects |-> r.elb2.effects, target_groups |-> r.elb2.target_groups]
           /\ UNCHANGED <<config, environment, elasticsearch, _autoscale, _defaults,
                          groups, load_balancers, records>>

NextTargetGroup == GetOrCreateTargetGroup

SpecTargetGroup == InitTargetGroup /\ [][NextTargetGroup]_vars

----------------------------------------------------------------------------
(* wait_for_instance_health_state, one step at a time.  call holds the       *)
(* arguments, the position in the code (pc), the clock of time.time(), the   *)
(* stop time and the polls made so far; ret holds how the call ended.        *)

InstanceIds == { "i-1", "i-2" }

InstanceStates == { "InService", "OutOfService" }

\* what describe_instance_health may report: any instances, each in any state
InstanceHealths ==
    UNION { [ids -> InstanceStates] : ids \in SUBSET InstanceIds }

\* timeouts in seconds; time.sleep(5) between polls
WaitTimeouts == { 0, 5, 10 }

\* seconds a poll may take
PollSeconds == { 0, 1 }

InitWait ==
    /\ NoResolver
    /\ ret = NoCall
    /\ \E services \in OwnServices :
           /\ load_balancers = services.load_balancers
           /\ records = services.records
    /\ \E hostclass \in Hostclasses, state \in InstanceStates, timeout \in WaitTimeouts :
           call = [op |-> "wait_for_instance_health_state", pc |-> "start",
                   hostclass |-> hostclass, state |-> state, timeout |-> timeout,
                   now |-> 0, stop_time |-> 0, polls |-> <<>>]

\* lines 531-536: the load balancer is looked up and the stop time is set
WaitStart ==
    /\ call.pc = "start"
    /\ LET elb == get_elb(Aws, environment, call.hostclass, FALSE)
       IN  IF elb.found
           THEN /\ call' = [call EXCEPT !.pc = "loop", !.stop_time = call.now + call.timeout]
                /\ UNCHANGED ret
           ELSE /\ call' = [call EXCEPT !.pc = "done"]
                /\ ret' = [status |-> "TypeError"]
    /\ UNCHANGED <<config, environment, elasticsearch, _autoscale, _defaults,
                   groups, load_balancers, records>>

\* lines 537-550: one round of the loop, a poll and, unless it ends the wait,
\* a sleep of five seconds
WaitPoll ==
    /\ call.pc = "loop"
    /\ call.now < call.stop_time
    /\ \E instances \in InstanceHealths, took \in PollSeconds :
           IF InstancesInState(instances, call.state)
           THEN /\ call' = [call EXCEPT !.pc = "done", !.now = @ + took,
                                        !.polls = Append(@, instances)]
                /\ ret' = [status |-> "returned"]
           ELSE /\ call' = [call EXCEPT !.now = @ + took + 5,
                                        !.polls = Append(@, instances)]
                /\ UNCHANGED ret
    /\ UNCHANGED <<config, environment, elasticsearch, _autoscale, _defaults,
                   groups, load_balancers, records>>

\* lines 551-555: the loop ends on the clock
WaitTimesOut ==
    /\ call.pc = "loop"
    /\ call.now >= call.stop_time
    /\ call' = [call EXCEPT !.pc = "done"]
    /\ ret' = [status |-> "TimeoutError"]
    /\ UNCHANGED <<config, environment, elasticsearch, _autoscale, _defaults,
                   groups, load_balancers, records>>

NextWait == WaitStart \/ WaitPoll \/ WaitTimesOut

SpecWait == InitWait /\ [][NextWait]_vars

----------------------------------------------------------------------------
(* DiscoElasticsearch.update on a configuration, a service and arguments     *)
(* drawn at the start                                                        *)

Logs == <<"logs">>

AppLogs == <<"app", "-", "logs">>

Ghost == <<"ghost">>

\* the Elasticsearch names the configuration has for the environment
ConfiguredNames == { <<>>, <<Logs>>, <<Logs, AppLogs>>, <<AppLogs, Logs>> }

\* the domains of the service: of the environment, of another environment
\* and one that is not named 'es-$name-$env'
ServiceDomainNames ==
    { <<"es", "-">> \o Logs \o <<"-">> \o Environment,
      <<"es", "-">> \o AppLogs \o <<"-">> \o Environment,
      <<"es", "-">> \o Logs \o <<"-", "prod">>,
      <<"search", "-">> \o Environment }

\* the configuration objects update is handed: none, or one of a domain of
\* the environment, with or without a version
EsConfigs ==
    { NoEsConfig }
        \cup { EsConfig(<<"es", "-">> \o n \o <<"-">> \o Environment, v) :
                 n \in { Logs, AppLogs }, v \in { <<>>, <<"5", ".", "5">> } }

InitUpdate ==
    /\ NoResolver
    /\ ret = NoCall
    /\ load_balancers = EmptyDict
    /\ records = {}
    /\ \E configured \in ConfiguredNames, existing \in SUBSET ServiceDomainNames,
          elasticsearch_name \in { None, Logs, AppLogs, Ghost }, es_config \in EsConfigs :
           call = [op |-> "input", configured |-> configured,
                   domains |-> [d \in existing |-> <<"acct", "/">> \o d],
                   elasticsearch_name |-> elasticsearch_name, es_config |-> es_config]

Update_ ==
    /\ call.op = "input"
    /\ LET es == update([present |-> TRUE, environment_name |-> environment,
                         domains |-> call.domains, configured |-> call.configured,
                         effects |-> <<>>],
                        call.elasticsearch_name, call.es_config)
       IN  /\ call' = [call EXCEPT !.op = "update"]
           /\ ret' = [status |-> "ok", effects |-> es.effects, domains |-> es.domains]
           /\ UNCHANGED <<config, environment, elasticsearch, _autoscale, _defaults,
                          groups, load_balancers, records>>

NextUpdate == Update_

SpecUpdate == InitUpdate /\ [][NextUpdate]_vars

----------------------------------------------------------------------------
(* DiscoESArchive.archive on a cluster, a repository name and a threshold    *)
(* drawn at the start                                                        *)

\* the name of the index of a day
IndexOf(day) == <<"logs", "-">> \o Str(day)

\* an index that is not dated
Kibana == <<".", "kibana">>

\* numbers of dated indices in the cluster
IndexCounts == { 1, 2, 12, 13 }

\* a cluster of dated indices of four bytes each and one undated index; the
\* indices of the days in ungreen are not green
Cluster(count, ungreen, snapped, repository_name, free_in_bytes) ==
    [indices |->
         { [index |-> IndexOf(d), day |-> d, dated |-> TRUE, size_in_bytes |-> 4,
            green |-> d \notin ungreen] : d \in 1..count }
             \cup { [index |-> Kibana, day |-> 0, dated |-> FALSE, size_in_bytes |-> 4,
                      green |-> TRUE] },
     snapshots |-> { [repository |-> repository_name, snapshot |-> IndexOf(d),
                      state |-> "SUCCESS"] : d \in snapped },
     total_in_bytes |-> 100, free_in_bytes |-> free_in_bytes, effects |-> <<>>]

\* thresholds in hundredths: 0.5, 0.9 and 1.5
ArchiveThresholds == { 50, 90, 150 }

RepositoryNames == { "s3", "backup" }

InitArchive ==
    /\ NoResolver
    /\ ret = NoCall
    /\ load_balancers = EmptyDict
    /\ records = {}
    /\ \E count \in IndexCounts, ungreen \in SUBSET {1, 2}, snapped \in { {}, {1}, 1..13 },
          repository_name \in RepositoryNames, free_in_bytes \in { 5, 40, 60 },
          threshold \in ArchiveThresholds :
           call = [op |-> "input", repository_name |-> repository_name,
                   threshold |-> threshold,
                   cluster |-> Cluster(count, ungreen, snapped, repository_name,
                                       free_in_bytes)]

Archive ==
    /\ call.op = "input"
    /\ \E element \in { i.index : i \in call.cluster.indices },
          snap_state \in { "SUCCESS", "FAILED", "IN_PROGRESS" } :
           LET r == archive(call.cluster, call.repository_name, call.threshold,
                            element, snap_state)
               indices == _archivable_indices(call.cluster, call.threshold)
               green_archivable == { indices[k] : k \in 1..Len(indices) }
                                       \cap _green_indices(call.cluster)
           IN  /\ IF Cardinality(green_archivable) < 11 + 1
                  THEN element = Kibana
                  ELSE element \in green_archivable
               /\ call' = [call EXCEPT !.op = "archive"]
               /\ ret' = [status |-> r.status, returned |-> r.returned,
                          skipped |-> r.skipped, state |-> r.state, index |-> r.index,
                          effects |-> r.cluster.effects, indices |-> r.cluster.indices,
                          snapshots |-> r.cluster.snapshots]
               /\ UNCHANGED <<config, environment, elasticsearch, _autoscale, _defaults,
                              groups, load_balancers, records>>

NextArchive == Archive

SpecArchive == InitArchive /\ [][NextArchive]_vars

\* the call is a sequential program: it takes its next step
SpecWaitFair == SpecWait /\ WF_vars(NextWait)

----------------------------------------------------------------------------
(* Vocabulary of the properties: what a section name and the layers of a    *)
(* configuration say, read off the configuration itself                     *)

Segments(section) == Split(section, ".")

IsAlarmSection(section) == Len(Segments(section)) >= 3

SectionTeam(section) == Segments(section)[1]

SectionNamespace(section) == Segments(section)[2]

SectionHostclass(section) ==
    IF Len(Segments(section)) >= 4 THEN Segments(section)[Len(Segments(section))] ELSE None

\* the section name without its hostclass segment
GenericName(section) ==
    IF Len(Segments(section)) >= 4
    THEN Join(SubSeq(Segments(section), 1, Len(Segments(section)) - 1), ".")
    ELSE section

SectionMetric(section) ==
    Join(SubSeq(Segments(GenericName(section)), 3, Len(Segments(GenericName(section)))), ".")

ItemsOrNothing(name_) == IF has_section(config, name_) THEN items(config, name_) ELSE EmptyDict

\* the value of the first layer that defines each key
FirstDefined(layers) ==
    [k \in UNION { DOMAIN layers[n] : n \in 1..Len(layers) } |->
        layers[CHOOSE n \in 1..Len(layers) :
                  k \in DOMAIN layers[n] /\ \A m \in 1..(n - 1) : k \notin DOMAIN layers[m]][k]]

\* child over parent over defaults
Layered(child_name, parent_name) ==
    FirstDefined(<< ItemsOrNothing(child_name), ItemsOrNothing(parent_name),
                    ItemsOrNothing(DEFAULT_SECTION_NAME) >>)

AugmentedKeys == {"autoscaling_group_name", "es_domain_name", "es_client_id"}

DecimalLiteral(s) == s # <<>> /\ \A i \in 1..Len(s) : s[i] \in Digits

IntegerLiteral(s) ==
    \/ DecimalLiteral(s)
    \/ Len(s) >= 2 /\ s[1] \in {"-", "+"} /\ DecimalLiteral(Tail(s))

ThresholdKeys == {"threshold_max", "threshold_min"}

ThresholdKey(side) == IF side = <<"max">> THEN "threshold_max" ELSE "threshold_min"

Sides == { <<"max">>, <<"min">> }

\* whether get_alarms(hostclass) has section i to resolve: an alarm section,
\* generic or of this hostclass, not an AWS/ES section without the
\* collaborator, and not shadowed by a section of this hostclass
Applies(i, hostclass) ==
    LET section == config[i].name
    IN  /\ IsAlarmSection(section)
        /\ SectionHostclass(section) \in {None, hostclass}
        /\ ~(SectionNamespace(section) = AWS_ES /\ ~elasticsearch.present)
        /\ SectionHostclass(section) = None
               => ~has_section(config, section \o <<".">> \o hostclass)

\* the merged options of section i for the hostclass, without the synthesized
\* and augmented fields
MergedFor(i, hostclass) ==
    Layered(GenericName(config[i].name) \o <<".">> \o hostclass, GenericName(config[i].name))

LogDerived(options) ==
    "log_pattern_metric" \in DOMAIN options /\ is_truthy(options["log_pattern_metric"])

\* the positions in the returned list of the alarms of section i on one side
AlarmsOf(i, hostclass, side) ==
    LET section == config[i].name
        merged == MergedFor(i, hostclass)
    IN  { n \in 1..Len(ret.alarms) :
            /\ ret.alarms[n].team = SectionTeam(section)
            /\ ret.alarms[n].namespace =
                   IF LogDerived(merged)
                   THEN SectionNamespace(section) \o <<"/">> \o environment
                   ELSE SectionNamespace(section)
            /\ ret.alarms[n].metric_name =
                   IF LogDerived(merged)
                   THEN hostclass \o <<"-">> \o SectionMetric(section)
                   ELSE SectionMetric(section)
            /\ ret.alarms[n].hostclass = hostclass
            /\ ret.alarms[n].threshold_type = side }

Malformed(cfg) ==
    \E i \in 1..Len(cfg) :
        /\ cfg[i].name \notin {NOTIFICATION_SECTION_NAME, DEFAULT_SECTION_NAME}
        /\ ~IsAlarmSection(cfg[i].name)

HasThreshold(options) == ThresholdKeys \cap DOMAIN options # {}

ThresholdsValid(options) ==
    \A key \in ThresholdKeys \cap DOMAIN options : DecimalLiteral(options[key])

\* the constructor can read every option it needs before it looks at the level
Readable(options) ==
    /\ {"duration", "period", "statistic", "custom_metric", "level"} \subseteq DOMAIN options
    /\ IntegerLiteral(options["duration"])
    /\ IntegerLiteral(options["period"])

LevelValid(options) == options["level"] \in { <<"critical">>, <<"info">> }

\* the lookups section i needs succeed
LookupsSucceed(i, hostclass, autoscaling_group_name) ==
    LET namespace == SectionNamespace(config[i].name)
    IN  /\ (namespace = AWS_EC2 /\ ~Truthy(autoscaling_group_name))
               => hostclass \in DOMAIN groups
        /\ namespace = AWS_ES
               => (<<"es", "-">> \o hostclass \o <<"-">> \o elasticsearch.environment_name)
                      \in DOMAIN elasticsearch.domains

\* nothing but a configuration error can make the call fail
OnlyConfigErrors(hostclass, autoscaling_group_name) ==
    /\ has_section(config, DEFAULT_SECTION_NAME)
    /\ \A i \in 1..Len(config) :
           Applies(i, hostclass) =>
               /\ LookupsSucceed(i, hostclass, autoscaling_group_name)
               /\ HasThreshold(MergedFor(i, hostclass)) => Readable(MergedFor(i, hostclass))

\* nothing at all can make the call fail
Faultless(hostclass, autoscaling_group_name) ==
    /\ ~Malformed(config)
    /\ OnlyConfigErrors(hostclass, autoscaling_group_name)
    /\ \A i \in 1..Len(config) :
           Applies(i, hostclass) =>
               /\ ThresholdsValid(MergedFor(i, hostclass))
               /\ HasThreshold(MergedFor(i, hostclass)) => LevelValid(MergedFor(i, hostclass))

Returned == call.op = "get_alarms" /\ ret.status = "ok"

Raised == call.op = "get_alarms" /\ ret.status # "ok" /\ ret.alarms = <<>>

RaisedConfigError ==
    /\ Raised
    /\ OnlyConfigErrors(call.hostclass, call.autoscaling_group_name)
           => ret.status = "AlarmConfigError"

----------------------------------------------------------------------------
(* C10: _decode_section_name returns, for a name of 4 or more dot-separated  *)
(* segments, team = segment 0, namespace = segment 1, hostclass = the last   *)
(* segment and metric_name = the segments between joined with '.', so that   *)
(* the four parts joined with '.' give the name back; for exactly 3 segments *)
(* team, namespace, metric_name and hostclass None; and for fewer than 3     *)
(* segments it raises AlarmConfigError naming the section.                   *)
C10_DecodeSectionName ==
    call.op = "_decode_section_name" =>
        LET segs == Segments(call.section)
            n == Len(segs)
        IN  /\ n >= 4 =>
                /\ ret.status = "ok"
                /\ ret.team = segs[1]
                /\ ret.namespace = segs[2]
                /\ ret.hostclass = segs[n]
                /\ ret.metric_name = Join(SubSeq(segs, 3, n - 1), ".")
                /\ Join(<<ret.team, ret.namespace, ret.metric_name, ret.hostclass>>, ".")
                       = call.section
                /\ \A part \in {ret.team, ret.namespace, ret.hostclass} :
                       \A i \in 1..Len(part) : part[i] # "."
            /\ n = 3 =>
                /\ ret.status = "ok"
                /\ <<ret.team, ret.namespace, ret.metric_name>> = segs
                /\ ret.hostclass = None
            /\ n < 3 =>
                /\ ret.status = "AlarmConfigError"
                /\ ret.section = call.section

\* a name of five segments, none empty, is decoded with a dotted metric name
C10_Witness ==
    /\ call.op = "_decode_section_name"
    /\ call.section = <<"a", ".", "b", ".", "a", ".", "b", ".", "a">>
    /\ ret.status = "ok"
    /\ ret.metric_name = <<"a", ".", "b">>
    /\ ret.hostclass = <<"a">>

----------------------------------------------------------------------------
(* C1: in hostclass-specific resolution every option key other than the     *)
(* synthesized and augmented ones resolves to the child section's value if   *)
(* the child defines it, else to the parent section's value if the parent    *)
(* exists and defines it, else to the value of the defaults section; a key   *)
(* defined in none of the three layers is absent from the result.            *)
C1_MergePrecedence ==
    (/\ call.op = "_get_alarm_specification_dict"
     /\ call.hostclass_specific
     /\ ret.status = "ok") =>
        LET parent_name == Join(<<call.team, call.namespace, call.metric_name>>, ".")
            child_name == parent_name \o <<".">> \o call.hostclass
            child == ItemsOrNothing(child_name)
            parent == ItemsOrNothing(parent_name)
            dflt == ItemsOrNothing(DEFAULT_SECTION_NAME)
            keys == (DOMAIN child \cup DOMAIN parent \cup DOMAIN dflt \cup DOMAIN ret.options)
                    \ (SynthesizedKeys \cup AugmentedKeys)
        IN  /\ ~ret.none
            /\ has_section(config, child_name)
            /\ \A k \in keys :
                   IF k \in DOMAIN child
                   THEN k \in DOMAIN ret.options /\ ret.options[k] = child[k]
                   ELSE IF k \in DOMAIN parent
                   THEN k \in DOMAIN ret.options /\ ret.options[k] = parent[k]
                   ELSE IF k \in DOMAIN dflt
                   THEN k \in DOMAIN ret.options /\ ret.options[k] = dflt[k]
                   ELSE k \notin DOMAIN ret.options

\* all three layers define threshold_max and the child's value is the result;
\* parent and defaults define threshold_min, the child does not, and the
\* parent's value is the result
C1_Witness ==
    /\ call.op = "_get_alarm_specification_dict"
    /\ call.hostclass_specific
    /\ ret.status = "ok"
    /\ has_section(config, Parent) /\ has_section(config, Child)
    /\ "threshold_max" \in DOMAIN items(config, Child)
    /\ "threshold_max" \in DOMAIN items(config, Parent)
    /\ "threshold_max" \in DOMAIN ItemsOrNothing(DEFAULT_SECTION_NAME)
    /\ "threshold_min" \notin DOMAIN items(config, Child)
    /\ "threshold_min" \in DOMAIN items(config, Parent)
    /\ "threshold_min" \in DOMAIN ItemsOrNothing(DEFAULT_SECTION_NAME)
    /\ ret.options["threshold_max"] = <<"3", "1">>
    /\ ret.options["threshold_min"] = <<"2", "2">>

----------------------------------------------------------------------------
(* C2: when both sections team.ns.metric and team.ns.metric.H exist,        *)
(* get_alarms(H) returns at most one alarm per threshold side for that       *)
(* team, namespace and metric, with the threshold of the merged child        *)
(* options, in whatever order the two sections stand; and the generic        *)
(* resolution of that team, namespace and metric for H yields no options.    *)
C2_ShadowedGenericSection ==
    /\ Returned =>
           \A i, j \in 1..Len(config) :
               config[j].name = config[i].name \o <<".">> \o call.hostclass =>
                   \A side \in Sides :
                       LET merged == Layered(config[j].name, config[i].name)
                           found == AlarmsOf(j, call.hostclass, side)
                       IN  /\ Cardinality(found) <= 1
                           /\ Cardinality(found) = 1 <=> ThresholdKey(side) \in DOMAIN merged
                           /\ \A n \in found :
                                  ret.alarms[n].threshold = DecimalValue(merged[ThresholdKey(side)])
    /\ (/\ call.op = "_get_alarm_specification_dict"
        /\ ~call.hostclass_specific
        /\ ret.status = "ok"
        /\ has_section(config, Join(<<call.team, call.namespace, call.metric_name,
                                      call.hostclass>>, "."))) =>
           ret.none /\ DOMAIN ret.options = {}

\* the parent stands before the child, both define threshold_max, and the one
\* alarm returned has the child's threshold
C2_Witness ==
    /\ Returned
    /\ call.hostclass = Web
    /\ Len(config) = 3 /\ config[2].name = Parent /\ config[3].name = Child
    /\ "threshold_max" \in DOMAIN config[2].items
    /\ "threshold_max" \in DOMAIN config[3].items
    /\ "threshold_min" \notin DOMAIN Layered(Child, Parent)
    /\ Len(ret.alarms) = 1
    /\ ret.alarms[1].threshold = 31

----------------------------------------------------------------------------
C3_PassedOver ==
    /\ Returned
    /\ sections(config) = <<DEFAULT_SECTION_NAME, NOTIFICATION_SECTION_NAME, Parent>>
    /\ Len(ret.alarms) = 1

----------------------------------------------------------------------------
(* C4 (amended): for every section that applies to hostclass h (a generic    *)
(* section that is not shadowed, or a section specific to h) and is not an   *)
(* AWS/ES section left out for want of the Elasticsearch collaborator, if    *)
(* the merged options hold threshold_max or threshold_min with a value that  *)
(* is not a non-empty string of decimal digits, get_alarms(h) raises and     *)
(* returns no alarm, with AlarmConfigError when no lookup and no missing or  *)
(* non-numeric option fails before; every alarm returned has the value of a  *)
(* threshold that is such a string.                                          *)
C4_InvalidThresholdRaises ==
    /\ (/\ call.op = "get_alarms"
        /\ \E i \in 1..Len(config) :
               /\ Applies(i, call.hostclass)
               /\ ~ThresholdsValid(MergedFor(i, call.hostclass))) => RaisedConfigError
    /\ Returned =>
           \A n \in 1..Len(ret.alarms) :
               \E i \in 1..Len(config) :
                   LET merged == MergedFor(i, call.hostclass)
                       key == ThresholdKey(ret.alarms[n].threshold_type)
                   IN  /\ Applies(i, call.hostclass)
                       /\ n \in AlarmsOf(i, call.hostclass, ret.alarms[n].threshold_type)
                       /\ key \in DOMAIN merged
                       /\ DecimalLiteral(merged[key])
                       /\ ret.alarms[n].threshold = DecimalValue(merged[key])

\* C4 as stated: every generic section that is not shadowed and every section
\* of the hostclass counts, an AWS/ES section without the collaborator too
AppliesAsStated(i, hostclass) ==
    LET section == config[i].name
    IN  /\ IsAlarmSection(section)
        /\ SectionHostclass(section) \in {None, hostclass}
        /\ SectionHostclass(section) = None
               => ~has_section(config, section \o <<".">> \o hostclass)

C4_AsStated ==
    (/\ call.op = "get_alarms"
     /\ \E i \in 1..Len(config) :
            /\ AppliesAsStated(i, call.hostclass)
            /\ ~ThresholdsValid(MergedFor(i, call.hostclass))) => Raised

\* threshold_max is valid and threshold_min is "-1": AlarmConfigError, no alarm
C4_Witness ==
    /\ call.op = "get_alarms"
    /\ Len(config) = 2
    /\ "threshold_max" \in DOMAIN config[2].items
    /\ config[2].items["threshold_max"] = <<"8", "0">>
    /\ "threshold_min" \in DOMAIN config[2].items
    /\ config[2].items["threshold_min"] = <<"-", "1">>
    /\ Readable(MergedFor(2, call.hostclass))
    /\ LevelValid(MergedFor(2, call.hostclass))
    /\ ret.status = "AlarmConfigError"
    /\ ret.alarms = <<>>

----------------------------------------------------------------------------
(* C5: a resolved section whose merged options hold both threshold_max and   *)
(* threshold_min yields exactly two alarms with the same namespace, metric   *)
(* and hostclass, one of type 'max' with threshold threshold_max and one of  *)
(* type 'min' with threshold threshold_min, whose names differ and end in    *)
(* '_max' and '_min'; with one of the keys it yields exactly one alarm and   *)
(* with neither none.                                                        *)
C5_OneAlarmPerThresholdKey ==
    Returned =>
        \A i \in 1..Len(config) :
            Applies(i, call.hostclass) =>
                LET merged == MergedFor(i, call.hostclass)
                    of(side) == AlarmsOf(i, call.hostclass, side)
                IN  /\ \A side \in Sides :
                        /\ Cardinality(of(side)) =
                               IF ThresholdKey(side) \in DOMAIN merged THEN 1 ELSE 0
                        /\ \A n \in of(side) :
                               LET name_ == name(ret.alarms[n])
                               IN  /\ ret.alarms[n].threshold =
                                          DecimalValue(merged[ThresholdKey(side)])
                                   /\ Len(name_) >= 2
                                   /\ SubSeq(name_, Len(name_) - 1, Len(name_)) = <<"_">> \o side
                    /\ \A n \in of(<<"max">>), m \in of(<<"min">>) :
                           /\ n # m
                           /\ name(ret.alarms[n]) # name(ret.alarms[m])

\* one section with both keys: two alarms, max 80 and min 10
C5_Witness ==
    /\ Returned
    /\ Len(config) = 2
    /\ ThresholdKeys \subseteq DOMAIN config[2].items
    /\ Len(ret.alarms) = 2
    /\ ret.alarms[1].threshold_type = <<"max">> /\ ret.alarms[1].threshold = 80
    /\ ret.alarms[2].threshold_type = <<"min">> /\ ret.alarms[2].threshold = 10
    /\ name(ret.alarms[1]) = <<"t", "_", "ci", "_", "web", "_", "m", "_", "max">>

----------------------------------------------------------------------------
(* C6: every alarm returned by get_alarms(h) has hostclass h, the resolver's *)
(* environment and the team, namespace and metric of a section that          *)
(* get_alarms(h) resolves, whatever options named hostclass, environment,    *)
(* team, namespace or metric_name the layers define; the alarms are as many  *)
(* as the threshold keys of the resolved sections, so a section of another   *)
(* hostclass contributes none.                                               *)
C6_SynthesizedFields ==
    Returned =>
        /\ \A n \in 1..Len(ret.alarms) :
               /\ ret.alarms[n].hostclass = call.hostclass
               /\ ret.alarms[n].environment = environment
               /\ \E i \in 1..Len(config) :
                      /\ Applies(i, call.hostclass)
                      /\ n \in AlarmsOf(i, call.hostclass, ret.alarms[n].threshold_type)
        /\ Len(ret.alarms) =
               Cardinality({ pair \in (1..Len(config)) \X ThresholdKeys :
                               /\ Applies(pair[1], call.hostclass)
                               /\ pair[2] \in DOMAIN MergedFor(pair[1], call.hostclass) })

\* the child section defines hostclass, team and environment options and a
\* section of another hostclass exists: the two alarms are those of the child
C6_Witness ==
    /\ Returned
    /\ call.hostclass = Web
    /\ Len(config) = 4
    /\ config[3].name = Child /\ config[4].name = OtherChild
    /\ {"hostclass", "team", "environment", "namespace", "metric_name"}
           \subseteq DOMAIN config[3].items
    /\ Len(ret.alarms) = 2
    /\ \A n \in 1..2 : ret.alarms[n].hostclass = Web /\ ret.alarms[n].team = <<"t">>

----------------------------------------------------------------------------
(* C7: without an Elasticsearch collaborator get_alarms returns no alarm of  *)
(* an AWS/ES section, and such a section cannot make it fail: it returns     *)
(* whenever the other sections are without fault; with the collaborator      *)
(* every alarm of an AWS/ES section has the domain name and the client id    *)
(* the collaborator gives for the hostclass.                                 *)
OfSearchNamespace(alarm) ==
    /\ Len(alarm.namespace) >= Len(AWS_ES)
    /\ SubSeq(alarm.namespace, 1, Len(AWS_ES)) = AWS_ES

C7_SearchSectionsNeedCollaborator ==
    /\ (call.op = "get_alarms" /\ ~elasticsearch.present) =>
           /\ \A n \in 1..Len(ret.alarms) :
                  ~OfSearchNamespace(ret.alarms[n])
           /\ Faultless(call.hostclass, call.autoscaling_group_name) => ret.status = "ok"
    /\ (Returned /\ elasticsearch.present) =>
           \A n \in 1..Len(ret.alarms) :
               OfSearchNamespace(ret.alarms[n]) =>
                   LET domain == <<"es", "-">> \o call.hostclass \o <<"-">>
                                     \o elasticsearch.environment_name
                   IN  /\ ret.alarms[n].es_domain_name = domain
                       /\ domain \in DOMAIN elasticsearch.domains
                       /\ ret.alarms[n].es_client_id \o <<"/">> \o domain
                              = elasticsearch.domains[domain]

\* no collaborator and an AWS/ES section with an invalid threshold: the call
\* returns the alarm of the other section
C7_Witness ==
    /\ Returned
    /\ ~elasticsearch.present
    /\ \E i \in 1..Len(config) :
           /\ IsAlarmSection(config[i].name)
           /\ SectionNamespace(config[i].name) = AWS_ES
           /\ SectionHostclass(config[i].name) \in {None, call.hostclass}
           /\ ~ThresholdsValid(config[i].items)
    /\ Len(ret.alarms) = 1

\* with the collaborator the alarm of an AWS/ES section has its client id
C7_Resolved ==
    /\ Returned
    /\ elasticsearch.present
    /\ \E n \in 1..Len(ret.alarms) :
           /\ ret.alarms[n].namespace = AWS_ES
           /\ ret.alarms[n].es_client_id = <<"acct">>

----------------------------------------------------------------------------
----------------------------------------------------------------------------
(* C9: every alarm returned by get_alarms has a duration and a period that   *)
(* are positive integers.                                                    *)
C9_PositiveDurationAndPeriod ==
    Returned =>
        \A n \in 1..Len(ret.alarms) :
            ret.alarms[n].duration > 0 /\ ret.alarms[n].period > 0

----------------------------------------------------------------------------
----------------------------------------------------------------------------
(* C12 as stated: decoding the name of a record gives back its team,         *)
(* environment, hostclass, metric_name and threshold_type only when the      *)
(* metric_name holds no underscore.                                          *)
HasUnderscore(s) == \E i \in 1..Len(s) : s[i] = "_"

Lossless(alarm, parts) ==
    /\ ~parts.empty
    /\ parts.team = alarm.team
    /\ parts.env = alarm.environment
    /\ parts.hostclass = alarm.hostclass
    /\ parts.metric_name = alarm.metric_name
    /\ parts.threshold_type = alarm.threshold_type

C12_LosslessOnlyWithoutUnderscoreInMetric ==
    call.op = "decode_own_name" =>
        (Lossless(call.alarm, ret) => ~HasUnderscore(call.alarm.metric_name))

(* C12 (amended): decoding the name of a record gives back its team,         *)
(* environment, hostclass, metric_name and threshold_type exactly when       *)
(* team, environment and hostclass hold no underscore, whatever underscores  *)
(* the metric_name holds.                                                    *)
C12_LosslessUnlessUnderscoreBeforeMetric ==
    call.op = "decode_own_name" =>
        (Lossless(call.alarm, ret) <=>
            /\ ~HasUnderscore(call.alarm.team)
            /\ ~HasUnderscore(call.alarm.environment)
            /\ ~HasUnderscore(call.alarm.hostclass))

\* a metric name with an underscore comes back whole
C12_Witness ==
    /\ call.op = "decode_own_name"
    /\ call.alarm.metric_name = <<"m", "_", "n">>
    /\ call.alarm.team = <<"t">>
    /\ ret.metric_name = <<"m", "_", "n">>
    /\ Lossless(call.alarm, ret)

\* a team with an underscore does not
C12_TeamSplit ==
    /\ call.op = "decode_own_name"
    /\ call.alarm.team = <<"t", "_", "x">>
    /\ ret.team = <<"t">>
    /\ ret.env = <<"x">>

----------------------------------------------------------------------------
(* C13: the dimensions of a record follow the first rule that matches: none  *)
(* for a log pattern metric; DBInstanceIdentifier = environment-hostclass    *)
(* for AWS/RDS; LoadBalancerName = get_elb_id(environment, hostclass) for    *)
(* AWS/ELB; DomainName and ClientId = es_domain_name and es_client_id for    *)
(* AWS/ES; otherwise env_hostclass = environment_hostclass if custom_metric, *)
(* else AutoScalingGroupName = autoscaling_group_name; so custom_metric      *)
(* changes nothing for an RDS, ELB or ES record.                             *)
Only(d, key, value) == DOMAIN d = {key} /\ d[key] = value

C13_DimensionsByFirstRule ==
    call.op = "dimensions" =>
        LET alarm == call.alarm
            d == ret.dimensions
            provider == alarm.namespace \in {AWS_RDS, AWS_ELB, AWS_ES}
        IN  /\ alarm.log_pattern_metric => DOMAIN d = {}
            /\ (~alarm.log_pattern_metric /\ alarm.namespace = AWS_RDS) =>
                   Only(d, "DBInstanceIdentifier",
                        alarm.environment \o <<"-">> \o alarm.hostclass)
            /\ (~alarm.log_pattern_metric /\ alarm.namespace = AWS_ELB) =>
                   Only(d, "LoadBalancerName",
                        get_elb_id(alarm.environment, alarm.hostclass, FALSE))
            /\ (~alarm.log_pattern_metric /\ alarm.namespace = AWS_ES) =>
                   /\ DOMAIN d = {"DomainName", "ClientId"}
                   /\ d["DomainName"] = alarm.es_domain_name
                   /\ d["ClientId"] = alarm.es_client_id
            /\ (~alarm.log_pattern_metric /\ ~provider /\ alarm.custom_metric) =>
                   Only(d, "env_hostclass",
                        alarm.environment \o <<"_">> \o alarm.hostclass)
            /\ (~alarm.log_pattern_metric /\ ~provider /\ ~alarm.custom_metric) =>
                   Only(d, "AutoScalingGroupName", alarm.autoscaling_group_name)

\* an AWS/RDS record with custom_metric set has the RDS dimension
C13_Witness ==
    /\ call.op = "dimensions"
    /\ call.alarm.namespace = AWS_RDS
    /\ call.alarm.custom_metric
    /\ ~call.alarm.log_pattern_metric
    /\ ret.dimensions = Put(EmptyDict, "DBInstanceIdentifier", <<"ci", "-", "web">>)

----------------------------------------------------------------------------
(* C14: every alarm returned by get_alarms(h) is that of a resolved section  *)
(* and has log_pattern_metric true exactly when the merged options of the    *)
(* section mark the metric as log-derived; then its namespace is the         *)
(* section's namespace, '/' and the environment, its metric_name is h, '-'   *)
(* and the section's metric, and it has no dimensions; otherwise namespace   *)
(* and metric_name are those of the section name.                            *)
C14_LogPatternRewrite ==
    Returned =>
        \A n \in 1..Len(ret.alarms) :
            \E i \in 1..Len(config) :
                LET alarm == ret.alarms[n]
                    section == config[i].name
                    marked == LogDerived(MergedFor(i, call.hostclass))
                IN  /\ Applies(i, call.hostclass)
                    /\ alarm.team = SectionTeam(section)
                    /\ alarm.log_pattern_metric = marked
                    /\ marked =>
                           /\ alarm.namespace
                                  = SectionNamespace(section) \o <<"/">> \o environment
                           /\ alarm.metric_name
                                  = call.hostclass \o <<"-">> \o SectionMetric(section)
                           /\ DOMAIN dimensions(alarm) = {}
                    /\ ~marked =>
                           /\ alarm.namespace = SectionNamespace(section)
                           /\ alarm.metric_name = SectionMetric(section)

\* the parent marks the metric with 'Yes' and the child says nothing
C14_Witness ==
    /\ Returned
    /\ call.hostclass = Web
    /\ Len(config) = 3
    /\ has_section(config, Parent)
    /\ "log_pattern_metric" \in DOMAIN items(config, Parent)
    /\ "log_pattern_metric" \notin DOMAIN config[1].items
    /\ has_section(config, Child)
    /\ "log_pattern_metric" \notin DOMAIN items(config, Child)
    /\ Len(ret.alarms) = 2
    /\ \A n \in 1..2 :
           /\ ret.alarms[n].log_pattern_metric
           /\ ret.alarms[n].namespace = <<"ns", "/", "ci">>
           /\ ret.alarms[n].metric_name = <<"web", "-", "m">>

\* the parent marks the metric and the child denies it
C14_Denied ==
    /\ Returned
    /\ call.hostclass = Web
    /\ has_section(config, Child) /\ has_section(config, Parent)
    /\ "log_pattern_metric" \in DOMAIN items(config, Child)
    /\ "log_pattern_metric" \in DOMAIN items(config, Parent)
    /\ items(config, Parent)["log_pattern_metric"] = <<"Yes">>
    /\ Len(ret.alarms) = 2
    /\ \A n \in 1..2 :
           ~ret.alarms[n].log_pattern_metric /\ ret.alarms[n].namespace = <<"ns">>

----------------------------------------------------------------------------
(* C15: get_alarms(h, autoscaling_group_name = G) with a non-empty G neither *)
(* constructs nor queries the autoscaling collaborator and every alarm it    *)
(* returns has autoscaling_group_name G; without G the collaborator is       *)
(* asked get_existing_group(h) once for each resolved AWS/EC2 section and    *)
(* for nothing else, the alarms of such a section have the name of the group *)
(* it returns whatever autoscaling_group_name the config gives, and a lookup *)
(* that fails ends get_alarms with the error of the lookup.                  *)
Asked == SelectSeq(ret.effects, LAMBDA e : e.op = "get_existing_group")

ComputeSections(hostclass) ==
    { i \in 1..Len(config) :
        Applies(i, hostclass) /\ SectionNamespace(config[i].name) = AWS_EC2 }

C15_AutoscalingGroupName ==
    call.op = "get_alarms" =>
        LET h == call.hostclass
            G == call.autoscaling_group_name
        IN  /\ Truthy(G) =>
                /\ \A k \in 1..Len(ret.effects) :
                       ret.effects[k].op \notin {"get_existing_group", "DiscoAutoscale"}
                /\ \A n \in 1..Len(ret.alarms) :
                       ret.alarms[n].autoscaling_group_name = G
            /\ ~Truthy(G) =>
                /\ \A k \in 1..Len(Asked) : Asked[k].hostclass = h
                /\ Len(Asked) <= Cardinality(ComputeSections(h))
                /\ Returned => Len(Asked) = Cardinality(ComputeSections(h))
                /\ \A n \in 1..Len(ret.alarms) :
                       ret.alarms[n].namespace = AWS_EC2 =>
                           /\ h \in DOMAIN groups
                           /\ ret.alarms[n].autoscaling_group_name = groups[h]
                /\ (Len(Asked) > 0 /\ h \notin DOMAIN groups) =>
                       ret.status = "LookupError" /\ ret.alarms = <<>>
                /\ (ComputeSections(h) # {} /\ h \notin DOMAIN groups) => Raised

\* no name given, the AWS/EC2 section has a name of its own in the config:
\* the collaborator is asked and its group's name is the alarm's
C15_Witness ==
    /\ Returned
    /\ ~Truthy(call.autoscaling_group_name)
    /\ call.hostclass = Web
    /\ has_section(config, ComputeParent)
    /\ "autoscaling_group_name" \in DOMAIN items(config, ComputeParent)
    /\ Asked = << Effect("get_existing_group", Web) >>
    /\ \E n \in 1..Len(ret.alarms) :
           /\ ret.alarms[n].namespace = AWS_EC2
           /\ ret.alarms[n].autoscaling_group_name = <<"asg">>

\* a name given: nothing is asked, both alarms have the name
C15_Given ==
    /\ Returned
    /\ call.autoscaling_group_name = <<"grp">>
    /\ has_section(config, ComputeParent)
    /\ ret.effects = << Effect("get_defaults", None) >>
    /\ Len(ret.alarms) = 2
    /\ \A n \in 1..2 : ret.alarms[n].autoscaling_group_name = <<"grp">>

\* no name given and no group for the hostclass: the lookup's error comes out
C15_LookupFails ==
    /\ call.op = "get_alarms"
    /\ call.hostclass = Db
    /\ has_section(config, ComputeParent)
    /\ Len(Asked) = 1
    /\ ret.status = "LookupError"

----------------------------------------------------------------------------
(* C16: over any sequence of calls on one resolver the defaults section is   *)
(* read from the config store at most once and DiscoAutoscale is constructed *)
(* at most once: a call reads the defaults at most once, and not at all if   *)
(* an earlier call has read them, and likewise for the collaborator, also    *)
(* when the defaults section is empty.                                       *)
Count(effects, op) == Len(SelectSeq(effects, LAMBDA e : e.op = op))

C16_MemoizedOnce ==
    [][ call'.op = "get_alarms" =>
            /\ Count(ret'.effects, "get_defaults") <= 1
            /\ _defaults.set => Count(ret'.effects, "get_defaults") = 0
            /\ Count(ret'.effects, "DiscoAutoscale") <= 1
            /\ _autoscale # "None" => Count(ret'.effects, "DiscoAutoscale") = 0 ]_vars

----------------------------------------------------------------------------
(* C17: on a configuration with a notifications section, get_notifications   *)
(* raises AlarmConfigError exactly when some key of the section has fewer     *)
(* than 3 parts separated by '_', or some key whose part at index 1 is the    *)
(* resolver's environment has a last part outside {critical, info};           *)
(* otherwise it returns one notification for each key whose part at index 1   *)
(* is the environment and no other, named by the key, its endpoints the       *)
(* value split on ','; the level of a key of another environment is not       *)
(* looked at.                                                                 *)
KeyParts(key) == Split(key, "_")

OfEnvironment(key) == Len(KeyParts(key)) >= 3 /\ KeyParts(key)[2] = environment

BadNotification(key) ==
    \/ Len(KeyParts(key)) < 3
    \/ /\ OfEnvironment(key)
       /\ KeyParts(key)[Len(KeyParts(key))] \notin { <<"critical">>, <<"info">> }

C17_Notifications ==
    (call.op = "get_notifications" /\ has_section(config, NOTIFICATION_SECTION_NAME)) =>
        LET options == items(config, NOTIFICATION_SECTION_NAME)
            mine == { key \in DOMAIN options : OfEnvironment(key) }
        IN  /\ ret.status = "AlarmConfigError"
                   <=> \E key \in DOMAIN options : BadNotification(key)
            /\ ret.status \in {"ok", "AlarmConfigError"}
            /\ ret.status = "AlarmConfigError" => ret.notifications = <<>>
            /\ ret.status = "ok" =>
                   /\ Len(ret.notifications) = Cardinality(mine)
                   /\ { ret.notifications[n] : n \in 1..Len(ret.notifications) }
                          = { DiscoNotification(key, Split(options[key], ",")) :
                                key \in mine }

\* a key of this environment with two endpoints beside a key of another
\* environment whose level is not in the set: one notification
C17_Witness ==
    /\ call.op = "get_notifications"
    /\ call.order = << <<"t", "_", "prod", "_", "bogus">>,
                       <<"t", "_", "ci", "_", "critical">> >>
    /\ ret.status = "ok"
    /\ Len(ret.notifications) = 1
    /\ ret.notifications[1].name = <<"t", "_", "ci", "_", "critical">>
    /\ ret.notifications[1].endpoints = << <<"a">>, <<"b">> >>

\* a key of two parts after a valid one: AlarmConfigError and nothing returned
C17_Raised ==
    /\ call.op = "get_notifications"
    /\ call.order = << <<"t", "_", "ci", "_", "critical">>, <<"t", "_", "ci">> >>
    /\ ret.status = "AlarmConfigError"
    /\ ret.notifications = <<>>

----------------------------------------------------------------------------
(* C18: to_metric_alarm(policy_arn) builds a request whose comparison is '>'  *)
(* for threshold_type 'max' and '<' for 'min', whose alarm_actions and        *)
(* ok_actions are both the list of the one policy_arn, whose                  *)
(* evaluation_periods is the duration and whose name, namespace, metric,      *)
(* statistic, period, threshold and dimensions are the record's own; the      *)
(* record is as it was.                                                       *)
C18_ToMetricAlarm ==
    call.op = "to_metric_alarm" =>
        LET alarm == call.alarm
            request == ret.request
        IN  /\ alarm.threshold_type = <<"max">> => request.comparison = <<">">>
            /\ alarm.threshold_type = <<"min">> => request.comparison = <<"<">>
            /\ request.alarm_actions = <<call.policy_arn>>
            /\ request.ok_actions = <<call.policy_arn>>
            /\ request.evaluation_periods = alarm.duration
            /\ request.name = Join(<<alarm.team, alarm.environment, alarm.hostclass,
                                     alarm.metric_name, alarm.threshold_type>>, "_")
            /\ request.namespace = alarm.namespace
            /\ request.metric = alarm.metric_name
            /\ request.statistic = alarm.statistic
            /\ request.period = alarm.period
            /\ request.threshold = alarm.threshold
            /\ DOMAIN request.dimensions = DOMAIN dimensions(alarm)
            /\ \A key \in DOMAIN request.dimensions :
                   request.dimensions[key] = dimensions(alarm)[key]
            /\ ret.alarm = alarm

\* a 'min' record of duration 5 and period 60
C18_Witness ==
    /\ call.op = "to_metric_alarm"
    /\ call.alarm.threshold_type = <<"min">>
    /\ call.alarm.duration = 5 /\ call.alarm.period = 60
    /\ ret.request.comparison = <<"<">>
    /\ ret.request.evaluation_periods = 5
    /\ ret.request.period = 60
    /\ ret.request.threshold = 10
    /\ ret.request.alarm_actions = << <<"arn", ":", "b">> >>

----------------------------------------------------------------------------
\* the load balancers that exist under the hashed id or the old-style name of
\* a hostclass
LoadBalancersOf(hostclass, testing) ==
    { get_elb_id(environment, hostclass, testing),
      get_elb_name(environment, hostclass, testing) } \cap DOMAIN load_balancers

\* the calls of one kind an operation made, in order
Calls(op) == SelectSeq(ret.effects, LAMBDA e : e.op = op)

\* the calls an operation made that change a load balancer already there
Updates ==
    SelectSeq(ret.effects,
              LAMBDA e : e.op \in { "configure_health_check",
                                    "describe_load_balancer_policies",
                                    "set_load_balancer_policies_of_listener",
                                    "delete_load_balancer_policy",
                                    "create_cookie_stickiness_policy",
                                    "modify_load_balancer_attributes" })

\* C19: after a get_or_create_elb call for a hostclass and a testing flag,
\* whatever calls came before it, exactly one load balancer exists for them
\* and it is the one returned.  create_load_balancer is called, once and with
\* the hashed id, exactly when the call found no load balancer under the
\* hashed id nor under the old-style name; a call that found one creates
\* nothing, returns the one it found and makes all its updates on that one.
C19_OneLoadBalancerPerHostclass ==
    (call.op = "get_or_create_elb" /\ ret.status = "ok") =>
        LET elb_id == get_elb_id(environment, call.hostclass, call.testing)
            created == Calls("create_load_balancer")
        IN  /\ Cardinality(LoadBalancersOf(call.hostclass, call.testing)) = 1
            /\ LoadBalancersOf(call.hostclass, call.testing) = {ret.elb.LoadBalancerName}
            /\ Len(created) = IF call.found THEN 0 ELSE 1
            /\ \A k \in 1..Len(created) : created[k].target = elb_id
            /\ call.found => ret.elb.LoadBalancerName = call.elb.LoadBalancerName
            /\ Len(Updates) > 0
            /\ \A k \in 1..Len(Updates) : Updates[k].target = ret.elb.LoadBalancerName

\* a second call for a hostclass whose load balancer an earlier call created
C19_Witness ==
    /\ call.op = "get_or_create_elb" /\ ret.status = "ok"
    /\ call.hostclass = Db /\ call.testing
    /\ call.found
    /\ call.elb.LoadBalancerName = get_elb_id(environment, Db, TRUE)
    /\ Len(Calls("create_load_balancer")) = 0
    /\ Cardinality(LoadBalancersOf(Db, TRUE)) = 1

\* a first call, which creates the load balancer under the hashed id
C19_Created ==
    /\ call.op = "get_or_create_elb" /\ ret.status = "ok"
    /\ ~call.found
    /\ Calls("create_load_balancer")
           = << [op |-> "create_load_balancer",
                 target |-> get_elb_id(environment, call.hostclass, call.testing)] >>

\* a call that finds the load balancer under the old-style name only
C19_FoundByName ==
    /\ call.op = "get_or_create_elb" /\ ret.status = "ok"
    /\ call.found
    /\ ret.elb.LoadBalancerName = get_elb_name(environment, call.hostclass, call.testing)
    /\ LoadBalancersOf(call.hostclass, call.testing)
           = {get_elb_name(environment, call.hostclass, call.testing)}

\* C20: delete_elb on a hostclass that has a load balancer deletes the CNAME
\* records whose value is its DNS name, then deletes the load balancer, and
\* does each once; afterwards no such record is left and get_elb finds nothing
\* for the hostclass.  On a hostclass without a load balancer it makes no
\* Route53 call and no delete call: it only looks the load balancer up.
C20_DeleteElb ==
    call.op = "delete_elb" =>
        LET lookups == Calls("describe_load_balancers")
            rest == SubSeq(ret.effects, Len(lookups) + 1, Len(ret.effects))
        IN  /\ SubSeq(ret.effects, 1, Len(lookups)) = lookups
            /\ call.found =>
                   /\ rest = << [op |-> "delete_records_by_value",
                                 target |-> call.elb.DNSName],
                                [op |-> "delete_load_balancer",
                                 target |-> call.elb.LoadBalancerName] >>
                   /\ \A r \in records :
                          ~(r.type = "CNAME" /\ r.value = call.elb.DNSName)
                   /\ call.elb.LoadBalancerName \notin DOMAIN load_balancers
                   /\ ~get_elb(Aws, environment, call.hostclass, call.testing).found
            /\ ~call.found => rest = <<>>

\* the load balancer of a hostclass deleted together with its two records
C20_Witness ==
    /\ call.op = "delete_elb"
    /\ call.found
    /\ Len(ret.effects) = 3
    /\ ret.effects[2].op = "delete_records_by_value"
    /\ ret.effects[3].op = "delete_load_balancer"
    /\ LoadBalancersOf(call.hostclass, call.testing) = {}
    /\ \E other \in DOMAIN load_balancers : TRUE

\* delete_elb on a hostclass that has no load balancer
C20_Absent ==
    /\ call.op = "delete_elb"
    /\ ~call.found
    /\ Len(ret.effects) = 2
    /\ \E other \in DOMAIN load_balancers : TRUE

----------------------------------------------------------------------------
\* the load balancers of a service that are in the given VPC
InVpc(balancers, vpc_id) ==
    { balancers[n] : n \in { m \in DOMAIN balancers : balancers[m].VPCId = vpc_id } }

\* the load balancers of a service that are outside the environment's VPC
OutsideVpc(balancers) ==
    { balancers[n] : n \in { m \in DOMAIN balancers : balancers[m].VPCId # VpcId } }

\* C21: list() returns exactly the load balancers whose VPCId is the VPC id of
\* the current environment.  After destroy_all_elbs() list() is empty, every
\* delete call was for a load balancer the environment had, and the load
\* balancers of other VPCs are all still there, unchanged and unlisted.
C21_ListAndDestroyOwnVpc ==
    /\ call.op = "list" =>
           /\ ret.listed = InVpc(load_balancers, VpcId)
           /\ ret.listed \cap OutsideVpc(load_balancers) = {}
    /\ call.op = "destroy_all_elbs" =>
           LET deleted == Calls("delete_load_balancer")
           IN  /\ list(Aws).listed = {}
               /\ InVpc(load_balancers, VpcId) = {}
               /\ OutsideVpc(load_balancers) = OutsideVpc(call.load_balancers)
               /\ { deleted[k].target : k \in 1..Len(deleted) }
                      = { elb.LoadBalancerName : elb \in InVpc(call.load_balancers, VpcId) }
               /\ Len(deleted) = Cardinality(InVpc(call.load_balancers, VpcId))

\* two load balancers of the environment destroyed next to one of another VPC
C21_Witness ==
    /\ call.op = "destroy_all_elbs"
    /\ Cardinality(InVpc(call.load_balancers, VpcId)) = 2
    /\ Cardinality(OutsideVpc(call.load_balancers)) = 1
    /\ DOMAIN load_balancers = {get_elb_id(OtherEnvironment, Web, FALSE)}

\* list() next to a load balancer of another VPC
C21_Listed ==
    /\ call.op = "list"
    /\ Cardinality(ret.listed) = 2
    /\ Cardinality(OutsideVpc(load_balancers)) = 1

----------------------------------------------------------------------------
\* whether a mapping's instance protocol is HTTP or HTTPS
IsHttp(mapping) == Upper(mapping.internal_protocol) \in {"HTTP", "HTTPS"}

\* the first mapping of a port configuration, in its order, that is HTTP(S)
FirstHttp(port_config) ==
    port_config[CHOOSE i \in 1..Len(port_config) :
                    /\ IsHttp(port_config[i])
                    /\ \A j \in 1..(i - 1) : ~IsHttp(port_config[j])]

\* 'PROTOCOL:port' of a mapping
ProtocolAndPort(mapping) ==
    <<mapping.internal_protocol, ":">> \o Str(mapping.internal_port)

\* the health checks a call configured
HealthChecks == Calls("configure_health_check")

\* the target of the claim for a port configuration and a health check URL
ExpectedTarget(port_config, health_check_url) ==
    IF \E i \in 1..Len(port_config) : IsHttp(port_config[i])
    THEN ProtocolAndPort(FirstHttp(port_config))
             \o (IF health_check_url = None THEN <<"/">> ELSE health_check_url)
    ELSE ProtocolAndPort(port_config[1])

C22_CapitalProtocols ==
    (/\ call.op = "get_or_create_elb" /\ ret.status = "ok"
     /\ \A i \in 1..Len(call.port_config) :
            call.port_config[i].internal_protocol
                = Upper(call.port_config[i].internal_protocol)) =>
        /\ Len(HealthChecks) = 1
        /\ HealthChecks[1].target = ret.elb.LoadBalancerName
        /\ HealthChecks[1].Target = ExpectedTarget(call.port_config, call.health_check_url)

\* HTTPS after TCP: the health check goes to the second mapping
C22_HttpsAfterTcp ==
    /\ call.op = "get_or_create_elb" /\ ret.status = "ok"
    /\ call.port_config = <<Mapping("TCP", 9001), Mapping("HTTPS", 4271)>>
    /\ HealthChecks[1].Target = <<"HTTPS", ":", "4", "2", "7", "1", "/", "health">>

----------------------------------------------------------------------------
\* the describe call of a get_or_create_target_group call succeeded
DescribeSucceeded ==
    ret.effects[1].op = "describe_target_groups" /\ ~ret.effects[1].failed

\* what the claim says of a call that returned
TargetGroupAsClaimed ==
    LET created == Calls("create_target_group")
        tagged == Calls("add_tags")
        arn == ArnOf(get_target_group_name(environment, call.hostclass))
    IN  /\ ret.arns = <<arn>>
        /\ DescribeSucceeded => Len(created) = 0
        /\ ~DescribeSucceeded => Len(created) = 1
        /\ Truthy(call.tags) =>
               /\ Len(tagged) >= 1
               /\ \A k \in 1..Len(tagged) : tagged[k].target = ret.arns
        /\ ~Truthy(call.tags) => Len(tagged) = 0

\* C23: a get_or_create_target_group call that returns gives the ARN of the
\* target group named for the environment and hostclass.  When its describe
\* call succeeded it made no create_target_group call; when the describe call
\* failed it made exactly one.  With tags, add_tags was called, on exactly the
\* ARNs returned; without tags it was not called.
C23_GetOrCreateTargetGroup ==
    (call.op = "get_or_create_target_group" /\ ret.status = "ok") => TargetGroupAsClaimed

\* the same for the calls in which no add_tags call failed
C23_WhenTaggingSucceeds ==
    (/\ call.op = "get_or_create_target_group" /\ ret.status = "ok"
     /\ \A k \in 1..Len(ret.effects) :
            ret.effects[k].op = "add_tags" => ~ret.effects[k].failed) =>
        TargetGroupAsClaimed

\* an existing target group found and tagged
C23_FoundAndTagged ==
    /\ call.op = "get_or_create_target_group" /\ ret.status = "ok"
    /\ DescribeSucceeded
    /\ Truthy(call.tags)
    /\ Len(ret.effects) = 2
    /\ ret.effects[2].op = "add_tags" /\ ret.effects[2].target = ret.arns

\* a target group created after the tagging of the one found failed
C23_CreatedThoughFound ==
    /\ call.op = "get_or_create_target_group" /\ ret.status = "ok"
    /\ DescribeSucceeded
    /\ Len(Calls("create_target_group")) = 1

----------------------------------------------------------------------------
\* a poll that reported at least one instance and every instance in the state
GoodPoll(k) ==
    /\ DOMAIN call.polls[k] # {}
    /\ \A i \in DOMAIN call.polls[k] : call.polls[k][i] = call.state

\* how a wait that returned or timed out must have gone
WaitEndedAsClaimed ==
    /\ ret.status = "returned" =>
           /\ Len(call.polls) >= 1
           /\ GoodPoll(Len(call.polls))
           /\ \A k \in 1..(Len(call.polls) - 1) : ~GoodPoll(k)
    /\ ret.status = "TimeoutError" =>
           /\ call.now >= call.stop_time
           /\ \A k \in 1..Len(call.polls) : ~GoodPoll(k)

\* C24 as stated: wait_for_instance_health_state always ends, and in one of
\* two ways.  It returns at the first poll that reports at least one instance
\* and every reported instance in the requested state, or it raises
\* TimeoutError once the timeout has elapsed without such a poll.
C24_ReturnsOrTimesOut ==
    /\ [](call.pc = "done" => (ret.status \in {"returned", "TimeoutError"}
                                 /\ WaitEndedAsClaimed))
    /\ <>(call.pc = "done")

\* C24, amended: the same of a hostclass that has a load balancer; on a
\* hostclass without one the call ends in a TypeError before any poll.
C24_ReturnsOrTimesOutGivenElb ==
    /\ [](call.pc = "done" =>
             /\ ret.status \in {"returned", "TimeoutError", "TypeError"}
             /\ ret.status = "TypeError" <=>
                    ~get_elb(Aws, environment, call.hostclass, FALSE).found
             /\ ret.status = "TypeError" => call.polls = <<>>
             /\ WaitEndedAsClaimed)
    /\ <>(call.pc = "done")

\* a wait that returned at its second poll, the first having reported an
\* instance out of service
C24_Witness ==
    /\ call.pc = "done" /\ ret.status = "returned"
    /\ Len(call.polls) = 2
    /\ \E i \in DOMAIN call.polls[1] : call.polls[1][i] # call.state
    /\ GoodPoll(2)

\* a wait that timed out after two polls, one of which reported no instance
C24_TimedOut ==
    /\ call.pc = "done" /\ ret.status = "TimeoutError"
    /\ Len(call.polls) = 2
    /\ DOMAIN call.polls[1] = {}

\* a wait on a hostclass without a load balancer
C24_NoLoadBalancer ==
    /\ call.pc = "done" /\ ret.status = "TypeError"
    /\ call.hostclass = Db

----------------------------------------------------------------------------
\* the desired names of an update call: of the configuration object, else
\* the name given, else every configured name
Desired ==
    IF call.es_config # NoEsConfig
    THEN { Logs, AppLogs } \cap
             { n \in { Logs, AppLogs } :
                 call.es_config.DomainName = <<"es", "-">> \o n \o <<"-">> \o environment }
    ELSE IF call.elasticsearch_name # None THEN { call.elasticsearch_name }
    ELSE { call.configured[k] : k \in 1..Len(call.configured) }

DomainOf(n) == <<"es", "-">> \o n \o <<"-">> \o environment

\* the places among the calls of an update where a call of a kind was made
\* for a domain or name
Places(op, target) ==
    { k \in 1..Len(ret.effects) : ret.effects[k].op = op /\ ret.effects[k].target = target }

IsConfigured(n) == \E k \in 1..Len(call.configured) : call.configured[k] = n

\* C25: for each desired name of an update call: with no es_config and the
\* name not configured there is no create, update or Route 53 call for its
\* domain.  Otherwise there is exactly one of the two: an update, whose
\* configuration has no ElasticsearchVersion, when the domain existed in the
\* environment before the call, and a create when it did not; and the one
\* Route 53 record of the domain is added after it.
C25_UpdateOrCreate ==
    call.op = "update" =>
        \A n \in Desired :
            LET updates == Places("update_elasticsearch_domain_config", DomainOf(n))
                creates == Places("create_elasticsearch_domain", DomainOf(n))
                recs == Places("create_record", DomainOf(n))
            IN  IF call.es_config = NoEsConfig /\ ~IsConfigured(n)
                THEN updates = {} /\ creates = {} /\ recs = {}
                ELSE /\ DomainOf(n) \in DOMAIN call.domains =>
                            /\ Cardinality(updates) = 1 /\ creates = {}
                            /\ \A k \in updates :
                                   ret.effects[k].config.ElasticsearchVersion = <<>>
                     /\ DomainOf(n) \notin DOMAIN call.domains =>
                            /\ Cardinality(creates) = 1 /\ updates = {}
                     /\ Cardinality(recs) = 1
                     /\ \A r \in recs : \A k \in updates \cup creates : k < r

\* an update of every configured name: one domain updated, one created
C25_Witness ==
    /\ call.op = "update"
    /\ call.elasticsearch_name = None /\ call.es_config = NoEsConfig
    /\ Len(call.configured) = 2
    /\ Places("update_elasticsearch_domain_config", DomainOf(Logs)) # {}
    /\ Places("create_elasticsearch_domain", DomainOf(AppLogs)) # {}

\* a name that is not configured, left alone
C25_Unconfigured ==
    /\ call.op = "update"
    /\ call.elasticsearch_name = Ghost /\ call.es_config = NoEsConfig
    /\ ret.effects = <<>>

\* C29: update creates the alarms of every domain it creates or updates: for
\* each desired name acted upon, the call that follows the Route 53 record of
\* its domain is create_alarms with that internal Elasticsearch name, whether
\* update was called with a name, without one or with an es_config.
C29_AlarmsOfEachDomain ==
    call.op = "update" =>
        \A n \in Desired :
            \A r \in Places("create_record", DomainOf(n)) :
                /\ r < Len(ret.effects)
                /\ ret.effects[r + 1].op = "create_alarms"
                /\ ret.effects[r + 1].target = n

\* the same of the calls made with the name of the domain and no es_config
C29_WhenNamed ==
    (call.op = "update" /\ call.es_config = NoEsConfig /\ call.elasticsearch_name # None) =>
        \A n \in Desired :
            \A r \in Places("create_record", DomainOf(n)) :
                /\ r < Len(ret.effects)
                /\ ret.effects[r + 1].op = "create_alarms"
                /\ ret.effects[r + 1].target = n

\* an update of every configured name, whose alarms are created for no name
C29_AlarmsOfNone ==
    /\ call.op = "update"
    /\ call.elasticsearch_name = None /\ call.es_config = NoEsConfig
    /\ Places("create_alarms", None) # {}

----------------------------------------------------------------------------
(* DiscoESArchive.archive *)

\* the archive call has been made
Archived == call.op = "archive"

\* the names of the calls op made on the cluster during the call
EsTargets(op) ==
    { ret.effects[k].target : k \in { j \in 1..Len(ret.effects) : ret.effects[j].op = op } }

\* the indices the call had to archive: those _archivable_indices selects
\* that are green
GreenArchivable ==
    LET indices == _archivable_indices(call.cluster, call.threshold)
    IN  { indices[k] : k \in 1..Len(indices) } \cap _green_indices(call.cluster)

\* the names of the indices of the cluster the call was made on
IndexNames(indices) == { i.index : i \in indices }

\* index has a snapshot of the given state in the repository of the call
Snapshotted(snapshots, index, state) ==
    [repository |-> call.repository_name, snapshot |-> index, state |-> state] \in snapshots

\* what the claim says of one call: deletion only after SUCCESS, a failed
\* snapshot deleted and its index kept, an index already snapshotted left
\* alone, an index that is not green left alone
ArchivedAsClaimed ==
    /\ \A index \in EsTargets("indices.delete") :
           /\ index \in EsTargets("snapshot.create")
           /\ Snapshotted(ret.snapshots, index, "SUCCESS")
    /\ \A index \in EsTargets("snapshot.create") :
           Snapshotted(ret.snapshots, index, "FAILED") = FALSE
             /\ (ret.state = "FAILED" => index \in IndexNames(ret.indices))
    /\ \A index \in IndexNames(call.cluster.indices) :
           snapshot_state(call.cluster, call.repository_name, index) # "unknown"
               => /\ index \notin EsTargets("snapshot.create")
                  /\ index \notin EsTargets("indices.delete")
    /\ \A index \in IndexNames(call.cluster.indices) \ _green_indices(call.cluster) :
           /\ index \notin EsTargets("snapshot.create")
           /\ index \notin EsTargets("indices.delete")
           /\ index \in IndexNames(ret.indices)

\* C26: archive() deletes an index only after its snapshot reached SUCCESS,
\* deletes the snapshot and keeps the index when the snapshot ends in FAILED,
\* neither snapshots nor deletes an index that already has a snapshot of its
\* name, and never snapshots or deletes an index that is not green.
C26_Archive == Archived => ArchivedAsClaimed

\* the same of the calls whose repository is the one the constructor
\* defaults to, 's3'
C26_InDefaultRepository == (Archived /\ call.repository_name = "s3") => ArchivedAsClaimed

\* a snapshot made in another repository failed and is still there
C26_FailedSnapshotLeft ==
    /\ Archived
    /\ call.repository_name # "s3"
    /\ \E index \in EsTargets("snapshot.create") : Snapshotted(ret.snapshots, index, "FAILED")

\* an index was deleted after its snapshot succeeded
C26_DeletedAfterSuccess ==
    /\ Archived
    /\ ret.state = "SUCCESS"
    /\ EsTargets("indices.delete") # {}

\* index got a snapshot attempt: its snapshot was looked for and either
\* found, the index then being skipped, or created
Attempted(index) == index \in EsTargets("snapshot.create") \/ index \in ret.skipped

\* C27: archive() gives every index that _archivable_indices selects and
\* that is green a snapshot attempt, for one or more such indices, and
\* returns the map of snapshot states without raising (stated of the calls in
\* which the snapshot comes to SUCCESS or FAILED before the wait times out).
C27_ArchivesEveryGreenArchivable ==
    (Archived /\ call.threshold <= 100 /\ GreenArchivable # {}
       /\ ret.status # "TimeoutError" /\ ret.status # "NotFoundError")
        => /\ ret.returned
           /\ \A index \in GreenArchivable : Attempted(index)

\* what the code does: with fewer than twelve such indices it raises
\* IndexError after creating the repository, with twelve or more it attempts
\* one of them
C27_TwelfthOnly ==
    (Archived /\ call.threshold <= 100 /\ GreenArchivable # {})
        => IF Cardinality(GreenArchivable) < 12
           THEN ret.status = "IndexError" /\ EsTargets("snapshot.create") = {}
           ELSE Cardinality({ index \in GreenArchivable : Attempted(index) }) = 1

\* one green archivable index and the call raised IndexError
C27_IndexError ==
    /\ Archived
    /\ Cardinality(GreenArchivable) = 1
    /\ ret.status = "IndexError"

\* twelve or more green archivable indices and one attempted
C27_OneOfMany ==
    /\ Archived
    /\ Cardinality(GreenArchivable) >= 12
    /\ ret.returned
    /\ Cardinality(EsTargets("snapshot.create")) = 1


----------------------------------------------------------------------------
(* The names of the alarms of one get_alarms result *)

\* the pairs of different places of the list get_alarms returned
AlarmPairs ==
    { p \in (1..Len(ret.alarms)) \X (1..Len(ret.alarms)) : p[1] < p[2] }

\* two alarms agree on the fields of a name that differ within one result
SameNamedFields(a, b) ==
    /\ a.team = b.team
    /\ a.metric_name = b.metric_name
    /\ a.threshold_type = b.threshold_type

\* C28 as stated: the alarm names in the list returned by one get_alarms(h)
\* call are pairwise distinct, for every config.
C28_NamesDistinct ==
    Returned => \A p \in AlarmPairs : name(ret.alarms[p[1]]) # name(ret.alarms[p[2]])

\* C28: two alarms of the list returned by one get_alarms(h) call have the
\* same name exactly when they agree on team, metric name and threshold
\* side; the namespace is no part of the name, so the two sides of one
\* section are named apart and two sections that differ only in namespace
\* are not.  (Of teams whose names hold no '_', the separator of the name.)
C28_NamesDistinctUpToNamespace ==
    Returned => \A p \in AlarmPairs :
        (~HasUnderscore(ret.alarms[p[1]].team) /\ ~HasUnderscore(ret.alarms[p[2]].team))
            => ((name(ret.alarms[p[1]]) = name(ret.alarms[p[2]]))
                    <=> SameNamedFields(ret.alarms[p[1]], ret.alarms[p[2]]))

\* the two sides of one section in one result, named apart
C28_Witness ==
    /\ Returned
    /\ \E p \in AlarmPairs :
           /\ ret.alarms[p[1]].namespace = ret.alarms[p[2]].namespace
           /\ ret.alarms[p[1]].metric_name = ret.alarms[p[2]].metric_name
           /\ ret.alarms[p[1]].threshold_type # ret.alarms[p[2]].threshold_type
           /\ name(ret.alarms[p[1]]) # name(ret.alarms[p[2]])

\* two alarms of different namespaces in one result with one name
C28_SharedName ==
    /\ Returned
    /\ \E p \in AlarmPairs :
           /\ ret.alarms[p[1]].namespace # ret.alarms[p[2]].namespace
           /\ name(ret.alarms[p[1]]) = name(ret.alarms[p[2]])


----------------------------------------------------------------------------
(* Resolution and the memoized defaults *)

\* the resolver as it is before any call: nothing memoized
Unused == [Self EXCEPT !._defaults = NoDefaults]

\* C30: resolution never mutates shared state: over any sequence of calls the
\* memoized defaults, once read, equal the defaults section of the config,
\* and get_alarms(h) ends as it does on a resolver that has served no call
\* yet, with the same alarms, whatever calls preceded it.
C30_NoLeak ==
    [][ /\ _defaults'.set => _defaults'.value = items(config, DEFAULT_SECTION_NAME)
        /\ call'.op = "get_alarms" =>
               LET first == get_alarms(Unused, call'.hostclass, call'.autoscaling_group_name)
               IN  /\ ret'.status = first.status
                   /\ ret'.alarms = first.alarms ]_vars

\* get_alarms returned alarms built on defaults an earlier call memoized
C30_Witness ==
    /\ Returned
    /\ Len(ret.alarms) > 0
    /\ Count(ret.effects, "get_defaults") = 0
    /\ _defaults.set
    /\ DOMAIN _defaults.value # {}
    /\ _defaults.value = items(config, DEFAULT_SECTION_NAME)

============================================================================
